---- MODULE Spec2Model ----
(***************************************************************************)
(* Model of the cpp-bot trading engine (TradingEngine) together with the   *)
(* threads that drive it: the price-stream worker that calls               *)
(* on_orderbook_update, the supervisor that calls set_market, and the      *)
(* interface workers that call the command setters.                        *)
(*                                                                         *)
(* Money is kept in cents (1.0 == Dollar), time in epoch seconds.          *)
(* on_orderbook_update releases the engine mutex before it calls           *)
(* process_market, so the evaluation is modelled as the sequence of steps  *)
(* gate / decide / exec / record / commit of the worker thread, and every  *)
(* mutex-protected operation of another thread may run between two steps.  *)
(***************************************************************************)
EXTENDS Integers, Sequences, FiniteSets, TLC

VARIABLES running, config, cash, realized_pnl, trading_mode, has_key,
          markets, active_market_slug, current_position, trade_history,
          last_completed_cycle, last_cycle_complete_time, writer_queue,
          now, pc, loc, ops,
          writer, stream, quote, pair, supervisor, locks

vars == <<running, config, cash, realized_pnl, trading_mode, has_key,
          markets, active_market_slug, current_position, trade_history,
          last_completed_cycle, last_cycle_complete_time, writer_queue,
          now, pc, loc, ops,
          writer, stream, quote, pair, supervisor, locks>>

\* The state of the engine and of the threads that drive it.
engine_vars == <<running, config, cash, realized_pnl, trading_mode, has_key,
                 markets, active_market_slug, current_position,
                 trade_history, last_completed_cycle,
                 last_cycle_complete_time, writer_queue, now, pc, loc, ops>>

\* ---------------------------------------------------------------- bounds
\* Trades executed in one run (history is unbounded in the program).
MaxTrades == 3
\* Operations of the supervisor and the interface workers in one run.
MaxOps == 1
\* Trades handed to the trade writer in one run.
MaxEnqueue == 2
\* Messages the price stream reads from the socket in one run.
MaxReads == 2
\* Calls of subscribe and clear_subscriptions in one run.
MaxCalls == 2
\* Levels on one side of a book handed to get_best_bid / get_best_ask.
MaxLevels == 2
\* Trades either engine of a pair may place.
MaxPairTrades == 2
\* Requests to the market-discovery service that fail in one run.
MaxFetchFailures == 1
\* Calls the threads begin in one run of the lock model.
MaxLockCalls == 3

\* ------------------------------------------------------------- constants
Dollar == 100
WindowSec == 900
CooldownSec == 5
InitialCash == 1000 * Dollar

None == [nil |-> TRUE]

\* ------------------------------------------------------------ input sets
Slugs == {"btc-updown-15m-900", "btc-updown-15m-1800"}
\* The UP and DOWN token of each market, and the tokens snapshots arrive for
\* ("zz" belongs to no market).
TokensOf(slug) == IF slug = "btc-updown-15m-900" THEN <<"u1", "d1">>
                                                 ELSE <<"u2", "d2">>
Tokens == {"u1", "d1", "u2", "d2", "zz"}
\* Wall-clock instants the clock is observed at: 5 and 0 seconds before the
\* end of the window of the first market, and 1 second after it.
TimePoints == {1795, 1800, 1801}
\* Ask sides of the snapshots the adapter delivers (price, size), unsorted
\* ones included; a book without asks is the one set_market installs.
AskBooks == { <<<<35, 50>>>>, <<<<65, 50>>, <<64, 50>>>> }
ThresholdValues == {35}
SharesValues == {20}
SumTargetValues == {98}
WindowValues == {900}
\* Venue answers: the price an accepted order is reported filled at (0
\* would mean "not reported"; the orders of the model ask for 0.35 or more).
FillPrices == {34}
Balances == {500 * Dollar}

\* --------------------------------------------------------------- helpers
EmptyBook == [bids |-> <<>>, asks |-> <<>>]

EmptyCycle == [active |-> FALSE, status |-> "pending", leg1_side |-> "",
               leg1_price |-> 0, leg1_shares |-> 0, leg2_side |-> "",
               leg2_price |-> 0, leg2_shares |-> 0, total_cost |-> 0,
               pnl |-> 0]

\* The Config main() builds, and the Config the header defaults give (the
\* two thresholds of the header differ by a cent).
InitConfig == [entry_threshold |-> 36, move |-> 36, shares |-> 10,
               sum_target |-> 99, dump_window_sec |-> 120]
DefaultConfig == [entry_threshold |-> 35, move |-> 36, shares |-> 10,
                  sum_target |-> 99, dump_window_sec |-> 120]

\* std::stoll of the text after the last '-' of the slug; 0 when it does
\* not parse.
MarketStartTime(slug) ==
    CASE slug = "btc-updown-15m-900" -> 900
      [] slug = "btc-updown-15m-1800" -> 1800
      [] OTHER -> 0

RECURSIVE MinAsk(_, _, _)
MinAsk(asks, i, m) ==
    IF i > Len(asks) THEN m
    ELSE MinAsk(asks, i + 1, IF asks[i][1] < m THEN asks[i][1] ELSE m)

get_best_ask(book) ==
    IF book.asks = <<>> THEN Dollar
    ELSE MinAsk(book.asks, 1, book.asks[1][1])

RECURSIVE MaxBid(_, _, _)
MaxBid(bids, i, m) ==
    IF i > Len(bids) THEN m
    ELSE MaxBid(bids, i + 1, IF bids[i][1] > m THEN bids[i][1] ELSE m)

get_best_bid(book) ==
    IF book.bids = <<>> THEN 0
    ELSE MaxBid(book.bids, 1, book.bids[1][1])

\* The copy of the engine under src/src/engine returns the first level.
get_best_bid_legacy(book) ==
    IF book.bids = <<>> THEN 0 ELSE book.bids[1][1]
get_best_ask_legacy(book) ==
    IF book.asks = <<>> THEN Dollar ELSE book.asks[1][1]

\* A fresh MarketState (last_update is written and never read: not kept).
NewMarket(slug, up, down) ==
    [slug |-> slug, up_token_id |-> up, down_token_id |-> down,
     up_orderbook |-> EmptyBook, down_orderbook |-> EmptyBook]

\* What a read through a dangling MarketState reference, or through an
\* empty optional<Position>, may produce.
UBMarkets == { NewMarket("", "", ""),
               [NewMarket("", "u1", "d1") EXCEPT
                   !.up_orderbook = [bids |-> <<>>, asks |-> <<<<35, 50>>>>]] }
UBPositions == { [market_slug |-> "", side |-> "", shares |-> 0,
                  avg_cost |-> 0, total_cost |-> 0, trades |-> <<>>],
                 [market_slug |-> "", side |-> "UP", shares |-> 10,
                  avg_cost |-> 35, total_cost |-> 350, trades |-> <<>>] }

\* The locals of the worker inside on_orderbook_update / process_market:
\* the token_id of the snapshot (until the gate), the slug processed, the
\* clock value and the time_left computed from it,
\* the dump_window_sec the gate compared it with (and the config_ it was
\* read from), the branch taken, the
\* arguments of execute_trade and the trade it returned.
IdleLoc == [token_id |-> "", config |-> None, slug |-> "", now_sec |-> 0, time_left |-> 0, window |-> 0,
            branch |-> "",
            side |-> "", token |-> "", shares |-> 0, price |-> 0,
            trade |-> None]

\* ----------------------------------------------------------- price stream
\* WebSocketPriceStream: running_, connected_, whether ws_ holds a socket,
\* subscribed_tokens_, the subscribe messages written on the current
\* connection (sent), the position of worker_thread_ in run / connect /
\* read_loop (wpc), the position of the thread inside stop() (spc), the
\* message read last (msg) with the events parsed from it that the callback
\* has not been given yet (pending), the calls of the order-book callback
\* (delivered), and the numbers of messages read and of subscribe /
\* clear_subscriptions calls.
NoMessage == [shape |-> "", items |-> <<>>, changes |-> <<>>]
StreamConstructed ==
    [running |-> FALSE, connected |-> FALSE, ws |-> FALSE,
     tokens |-> <<>>, sent |-> <<>>, wpc |-> "none", spc |-> "idle",
     msg |-> NoMessage, pending |-> <<>>, delivered |-> <<>>,
     reads |-> 0, calls |-> 0]

\* ------------------------------------------------------------ best of book
\* The book handed to get_best_bid / get_best_ask and the prices returned.
NoQuote == [asks |-> <<>>, bids |-> <<>>,
            done |-> FALSE, best_ask |-> 0, best_bid |-> 0,
            legacy_done |-> FALSE, legacy_ask |-> 0, legacy_bid |-> 0]

\* ------------------------------------------------------------ two engines
\* Two TradingEngine objects fed the same events, each a record of the
\* members of the class; no pair before one is built.
NoPair == [kind |-> "", left |-> None, right |-> None, now |-> 0,
           clean |-> TRUE]

\* ------------------------------------------------------------- supervisor
\* The locals of the rotation loop of main(), the clock it reads, the slug
\* the engine was last given and the subscription set of the price stream.
NoSupervisor ==
    [now |-> 0, spc |-> "top", time_left |-> 0, current_window_ts |-> 0,
     next_slug |-> "", next_tokens_ready |-> FALSE, next_up_token |-> "",
     next_down_token |-> "", g_up_token |-> "", g_down_token |-> "",
     active_market_slug |-> "", tokens |-> {}, failures |-> 0]

\* ------------------------------------------------------------------ locks
\* The threads of the process and the mutexes they share: who owns each
\* mutex, what each thread still has to do in the call it is in, and the
\* number of calls begun.
Threads == {"adapter", "supervisor", "interface", "writer"}
Mutexes == {"engine", "writer", "log", "price", "cycle"}
NoLocks == [owner |-> [m \in Mutexes |-> "free"],
            todo |-> [t \in Threads |-> <<>>],
            calls |-> 0]

\* ----------------------------------------------------------- trade writer
\* AsyncTradeWriter: running_, queue_ (trades are numbered in the order of
\* the queue_trade calls), the position of worker_ in worker_loop (wpc) and
\* the trade it has popped (cur), the calls of Database::insert_trade with
\* their results (log), the position of the thread inside stop() (spc), of
\* the thread inside queue_trade (ppc), and the number of the next trade.
WriterConstructed ==
    [running |-> FALSE, queue |-> <<>>, wpc |-> "none", cur |-> 0,
     log |-> <<>>, spc |-> "idle", ppc |-> "idle", next |-> 1]
\* The writer of main(): started before the engine is handed a pointer to it.
WriterStarted == [WriterConstructed EXCEPT !.running = TRUE, !.wpc = "loop"]

\* ------------------------------------------------------------------ Init
\* The engine constructed from a Config (that of main.cpp, or a
\* default-constructed one) and started: paper mode, 1000 dollars, either
\* before the supervisor's first rotation or with the market of the current
\* window installed by it.
FirstSlug == "btc-updown-15m-900"

EngineInit ==
    /\ running = TRUE
    /\ config \in {InitConfig, DefaultConfig}
    /\ cash = InitialCash
    /\ realized_pnl = 0
    /\ trading_mode = "PAPER"
    /\ has_key \in BOOLEAN
    /\ \/ /\ markets = <<>>
          /\ active_market_slug = ""
       \/ /\ active_market_slug = FirstSlug
          /\ markets = [s \in {FirstSlug} |->
                           NewMarket(s, TokensOf(s)[1], TokensOf(s)[2])]
    /\ current_position = None
    /\ trade_history = <<>>
    /\ last_completed_cycle = EmptyCycle
    /\ last_cycle_complete_time = 0
    /\ writer_queue = <<>>
    /\ now = 1795
    /\ pc = "idle"
    /\ loc = IdleLoc
    /\ ops = 0

Init ==
    /\ EngineInit
    /\ writer = WriterStarted
    /\ stream = StreamConstructed
    /\ quote = NoQuote
    /\ pair = NoPair
    /\ supervisor = NoSupervisor
    /\ locks = NoLocks

\* An operation of the supervisor or of an interface worker is counted; a
\* step of the price-stream worker or of the clock is not.  No engine
\* operation reaches into the state of the trade writer or of the price
\* stream.
Counted ==
    ops < MaxOps /\ ops' = ops + 1 /\ UNCHANGED <<writer, stream, quote, pair, supervisor, locks>>
\* The reset command is counted too, and may also follow the MaxOps
\* operations when they have left the engine in live mode.
ResetCounted ==
    /\ ops < MaxOps \/ (ops = MaxOps /\ trading_mode = "LIVE")
    /\ ops' = ops + 1
    /\ UNCHANGED <<writer, stream, quote, pair, supervisor, locks>>
Uncounted == ops' = ops /\ UNCHANGED <<writer, stream, quote, pair, supervisor, locks>>

\* ----------------------------------------- operations of the other threads

\* TradingEngine::start / stop (running_ is atomic, no mutex).
Start ==
    /\ Counted
    /\ running' = TRUE
    /\ UNCHANGED <<config, cash, realized_pnl, trading_mode, has_key, markets,
                   active_market_slug, current_position, trade_history,
                   last_completed_cycle, last_cycle_complete_time,
                   writer_queue, now, pc, loc>>

Stop ==
    /\ Counted
    /\ running' = FALSE
    /\ UNCHANGED <<config, cash, realized_pnl, trading_mode, has_key, markets,
                   active_market_slug, current_position, trade_history,
                   last_completed_cycle, last_cycle_complete_time,
                   writer_queue, now, pc, loc>>

\* The cycle record set_market freezes when it abandons a position.
AbandonedCycle(pos) ==
    [last_completed_cycle EXCEPT
        !.active = FALSE, !.status = "incomplete", !.leg1_side = pos.side,
        !.leg1_price = pos.avg_cost, !.leg1_shares = pos.shares,
        !.total_cost = pos.total_cost, !.pnl = 0 - pos.total_cost]

\* An abandonment that books no loss.
AbandonedPnl_Unbooked(pos) == realized_pnl

\* The realized P&L after an abandonment.
AbandonedPnl(pos) == realized_pnl - pos.total_cost

\* A set_market that keeps the entries of the other slugs.
StoreAfterSetMarket_NoClear(slug, up, down) ==
    [s \in DOMAIN markets \cup {slug} |->
        IF s = slug THEN NewMarket(slug, up, down) ELSE markets[s]]

\* The store after set_market: cleared when the slug differs, and the entry
\* of the slug (re)initialised with empty books in both cases.
StoreAfterSetMarket(slug, up, down) ==
    LET kept == IF active_market_slug # slug THEN {} ELSE DOMAIN markets
    IN [s \in kept \cup {slug} |->
           IF s = slug THEN NewMarket(slug, up, down) ELSE markets[s]]

set_market(slug, up, down) ==
    /\ IF active_market_slug # slug /\ current_position # None
       THEN /\ last_completed_cycle' = AbandonedCycle(current_position)
            /\ realized_pnl' = AbandonedPnl(current_position)
            /\ current_position' = None
       ELSE UNCHANGED <<last_completed_cycle, realized_pnl, current_position>>
    /\ active_market_slug' = slug
    /\ markets' = StoreAfterSetMarket(slug, up, down)
    /\ UNCHANGED <<running, config, cash, trading_mode, has_key,
                   trade_history, last_cycle_complete_time, writer_queue,
                   now, pc, loc>>

SetMarket == Counted /\ \E slug \in Slugs : set_market(slug, TokensOf(slug)[1], TokensOf(slug)[2])

set_entry_threshold(value) ==
    /\ config' = [config EXCEPT !.move = value, !.entry_threshold = value]
    /\ UNCHANGED <<running, cash, realized_pnl, trading_mode, has_key, markets,
                   active_market_slug, current_position, trade_history,
                   last_completed_cycle, last_cycle_complete_time,
                   writer_queue, now, pc, loc>>

set_shares(value) ==
    /\ config' = [config EXCEPT !.shares = value]
    /\ UNCHANGED <<running, cash, realized_pnl, trading_mode, has_key, markets,
                   active_market_slug, current_position, trade_history,
                   last_completed_cycle, last_cycle_complete_time,
                   writer_queue, now, pc, loc>>

set_sum_target(value) ==
    /\ config' = [config EXCEPT !.sum_target = value]
    /\ UNCHANGED <<running, cash, realized_pnl, trading_mode, has_key, markets,
                   active_market_slug, current_position, trade_history,
                   last_completed_cycle, last_cycle_complete_time,
                   writer_queue, now, pc, loc>>

set_trading_window(seconds) ==
    /\ config' = [config EXCEPT !.dump_window_sec = seconds]
    /\ UNCHANGED <<running, cash, realized_pnl, trading_mode, has_key, markets,
                   active_market_slug, current_position, trade_history,
                   last_completed_cycle, last_cycle_complete_time,
                   writer_queue, now, pc, loc>>

SetEntryThreshold == Counted /\ \E v \in ThresholdValues : set_entry_threshold(v)
SetShares == Counted /\ \E v \in SharesValues : set_shares(v)
SetSumTarget == Counted /\ \E v \in SumTargetValues : set_sum_target(v)
SetTradingWindow == Counted /\ \E v \in WindowValues : set_trading_window(v)

\* A set_trading_mode that does not look for the private key.
set_trading_mode_NoKeyCheck(mode) ==
    /\ IF mode = "LIVE"
       THEN /\ trading_mode' = "LIVE"
            /\ \/ \E b \in Balances : cash' = b
               \/ UNCHANGED cash
       ELSE /\ trading_mode' = "PAPER"
            /\ UNCHANGED cash
    /\ UNCHANGED <<running, config, realized_pnl, has_key, markets,
                   active_market_slug, current_position, trade_history,
                   last_completed_cycle, last_cycle_complete_time,
                   writer_queue, now, pc, loc>>

\* set_trading_mode: LIVE needs the private key; the balance probe may fail,
\* and the mode is LIVE either way. polymarket_client_ is set (main.cpp:205).
set_trading_mode(mode) ==
    /\ IF mode = "LIVE"
       THEN IF ~has_key
            THEN UNCHANGED <<trading_mode, cash>>
            ELSE /\ trading_mode' = "LIVE"
                 /\ \/ \E b \in Balances : cash' = b
                    \/ UNCHANGED cash
       ELSE /\ trading_mode' = "PAPER"
            /\ UNCHANGED cash
    /\ UNCHANGED <<running, config, realized_pnl, has_key, markets,
                   active_market_slug, current_position, trade_history,
                   last_completed_cycle, last_cycle_complete_time,
                   writer_queue, now, pc, loc>>

SetTradingMode == Counted /\ \E mode \in {"PAPER", "LIVE"} : set_trading_mode(mode)

\* A reset that keeps the last cycle record.
reset_paper_trading_KeepsCycle ==
    /\ trading_mode' = "PAPER"
    /\ cash' = InitialCash
    /\ realized_pnl' = 0
    /\ current_position' = None
    /\ trade_history' = <<>>
    /\ UNCHANGED <<config, has_key, markets, active_market_slug,
                   last_completed_cycle, last_cycle_complete_time,
                   writer_queue, now, pc, loc>>

\* A reset that drops the oldest trade only.
reset_paper_trading_DropsOldest ==
    /\ trading_mode' = "PAPER"
    /\ cash' = InitialCash
    /\ realized_pnl' = 0
    /\ current_position' = None
    /\ trade_history' = IF trade_history = <<>> THEN <<>>
                                                ELSE Tail(trade_history)
    /\ last_completed_cycle' = EmptyCycle
    /\ UNCHANGED <<config, has_key, markets, active_market_slug,
                   last_cycle_complete_time, writer_queue, now, pc, loc>>

\* reset_paper_trading: the portfolio only; the cooldown clock, the store
\* and the mode's precondition are not touched.
reset_paper_trading ==
    /\ trading_mode' = "PAPER"
    /\ cash' = InitialCash
    /\ realized_pnl' = 0
    /\ current_position' = None
    /\ trade_history' = <<>>
    /\ last_completed_cycle' = EmptyCycle
    /\ UNCHANGED <<config, has_key, markets, active_market_slug,
                   last_cycle_complete_time, writer_queue, now, pc, loc>>

\* The "reset" command: stop(), then reset_paper_trading().
ResetPaperTrading ==
    ResetCounted /\ running' = FALSE /\ reset_paper_trading

\* The wall clock moves on to a later instant.
Tick ==
    /\ Uncounted
    /\ \E t \in TimePoints : t > now /\ now' = t
    /\ UNCHANGED <<running, config, cash, realized_pnl, trading_mode, has_key,
                   markets, active_market_slug, current_position,
                   trade_history, last_completed_cycle,
                   last_cycle_complete_time, writer_queue, pc, loc>>

\* ------------------------------------------- the price-stream worker thread

\* A lookup that falls back on the active market.
OwnerOf_Fallback(token_id) ==
    IF \E s \in DOMAIN markets : markets[s].up_token_id = token_id
                                 \/ markets[s].down_token_id = token_id
    THEN CHOOSE s \in DOMAIN markets : markets[s].up_token_id = token_id
                                       \/ markets[s].down_token_id = token_id
    ELSE IF active_market_slug \in DOMAIN markets THEN active_market_slug
    ELSE ""

\* The slug of the first market of the store that owns token_id ("" when
\* none does); the store holds at most one market.
OwnerOf(token_id) ==
    IF \E s \in DOMAIN markets : markets[s].up_token_id = token_id
                                 \/ markets[s].down_token_id = token_id
    THEN CHOOSE s \in DOMAIN markets : markets[s].up_token_id = token_id
                                       \/ markets[s].down_token_id = token_id
    ELSE ""

\* The market after the snapshot is assigned to the side owning token_id
\* (the UP side is tested first).
ApplyBook(m, token_id, snapshot) ==
    IF m.up_token_id = token_id
    THEN [m EXCEPT !.up_orderbook = snapshot]
    ELSE [m EXCEPT !.down_orderbook = snapshot]

\* on_orderbook_update: the locked block that stores the snapshot; the
\* mutex is released before process_market is called.
on_orderbook_update(token_id, snapshot) ==
    /\ pc = "idle"
    /\ Len(writer_queue) < MaxTrades
    /\ IF ~running
       THEN UNCHANGED <<markets, pc, loc>>
       ELSE LET slug == OwnerOf(token_id)
            IN IF slug = ""
               THEN UNCHANGED <<markets, pc, loc>>
               ELSE /\ markets' = [markets EXCEPT
                           ![slug] = ApplyBook(markets[slug], token_id, snapshot)]
                    /\ pc' = "gate"
                    /\ loc' = [IdleLoc EXCEPT !.slug = slug,
                                              !.token_id = token_id]
    /\ UNCHANGED <<running, config, cash, realized_pnl, trading_mode, has_key,
                   active_market_slug, current_position, trade_history,
                   last_completed_cycle, last_cycle_complete_time,
                   writer_queue, now>>

OnOrderbookUpdate ==
    Uncounted /\ \E token_id \in Tokens, asks \in AskBooks :
        on_orderbook_update(token_id, [bids |-> <<>>, asks |-> asks])

\* time_left of the market at the clock value read by process_market.
TimeLeft(slug) == WindowSec - (now - MarketStartTime(slug))

\* A window gate without the test for an expired window.
InWindow_NoExpiry(time_left) == ~(time_left > config.dump_window_sec)

\* The window gate of process_market.
InWindow(time_left) ==
    ~(time_left < 0 \/ time_left > config.dump_window_sec)

\* A cooldown that still holds in the fifth second.
InCooldown_SixSeconds == now - last_cycle_complete_time < CooldownSec + 1

\* The cooldown test of process_market.
InCooldown == now - last_cycle_complete_time < CooldownSec

\* process_market up to the choice of the entry or the hedge branch.
Gate ==
    /\ Uncounted
    /\ pc = "gate"
    /\ LET time_left == TimeLeft(loc.slug)
           seen == [loc EXCEPT !.token_id = "", !.config = config,
                               !.now_sec = now, !.time_left = time_left,
                               !.window = config.dump_window_sec]
       IN IF loc.slug \notin DOMAIN markets \/ ~InWindow(time_left)
          THEN pc' = "idle" /\ loc' = IdleLoc
          ELSE IF current_position = None
               THEN IF InCooldown
                    THEN pc' = "idle" /\ loc' = IdleLoc
                    ELSE pc' = "decide" /\ loc' = [seen EXCEPT !.branch = "enter"]
               ELSE IF current_position.market_slug = loc.slug
                    THEN pc' = "decide" /\ loc' = [seen EXCEPT !.branch = "hedge"]
                    ELSE pc' = "idle" /\ loc' = IdleLoc
    /\ UNCHANGED <<running, config, cash, realized_pnl, trading_mode, has_key,
                   markets, active_market_slug, current_position,
                   trade_history, last_completed_cycle,
                   last_cycle_complete_time, writer_queue, now>>

\* should_enter: <<side, price>>, or <<>> when neither ask is below the
\* threshold.
should_enter(market) ==
    LET up_ask == get_best_ask(market.up_orderbook)
        down_ask == get_best_ask(market.down_orderbook)
    IN IF up_ask < config.move THEN <<"UP", up_ask>>
       ELSE IF down_ask < config.move THEN <<"DOWN", down_ask>>
       ELSE <<>>

\* A hedge test that takes any opposite ask.
should_hedge_AnyPrice(pos, market) ==
    LET opposite_book == IF pos.side = "UP" THEN market.down_orderbook
                                            ELSE market.up_orderbook
    IN <<get_best_ask(opposite_book)>>

\* A hedge test that wants the sum strictly below the target.
should_hedge_Strict(pos, market) ==
    LET opposite_book == IF pos.side = "UP" THEN market.down_orderbook
                                            ELSE market.up_orderbook
        opposite_ask == get_best_ask(opposite_book)
    IN IF pos.avg_cost + opposite_ask < config.sum_target
       THEN <<opposite_ask>> ELSE <<>>

\* should_hedge: <<price>>, or <<>> when the sum is above the target.
should_hedge(pos, market) ==
    LET opposite_book == IF pos.side = "UP" THEN market.down_orderbook
                                            ELSE market.up_orderbook
        opposite_ask == get_best_ask(opposite_book)
    IN IF pos.avg_cost + opposite_ask <= config.sum_target
       THEN <<opposite_ask>> ELSE <<>>

\* The markets the reference `market` of process_market may read: the entry
\* of the store, or anything once set_market has destroyed it.
MarketReads(slug) ==
    IF slug \in DOMAIN markets THEN {markets[slug]} ELSE UBMarkets

\* The positions *current_position_ may read: the position, or anything
\* once another thread has reset the optional.
PositionReads ==
    IF current_position # None THEN {current_position} ELSE UBPositions

TokenOf(market, side) ==
    IF side = "UP" THEN market.up_token_id ELSE market.down_token_id

\* process_market: the entry or hedge test and the arguments of
\* execute_trade.
Decide ==
    /\ Uncounted
    /\ pc = "decide"
    /\ \E market \in MarketReads(loc.slug), pos \in PositionReads :
          IF loc.branch = "enter"
          THEN LET e == should_enter(market)
               IN IF e = <<>>
                  THEN pc' = "idle" /\ loc' = IdleLoc
                  ELSE /\ pc' = "exec"
                       /\ loc' = [loc EXCEPT !.side = e[1], !.price = e[2],
                                     !.token = TokenOf(market, e[1]),
                                     !.shares = config.shares]
          ELSE LET h == should_hedge(pos, market)
                   opposite_side == IF pos.side = "UP" THEN "DOWN" ELSE "UP"
               IN IF h = <<>>
                  THEN pc' = "idle" /\ loc' = IdleLoc
                  ELSE /\ pc' = "exec"
                       /\ loc' = [loc EXCEPT !.side = opposite_side,
                                     !.price = h[1],
                                     !.token = TokenOf(market, opposite_side),
                                     !.shares = pos.shares]
    /\ UNCHANGED <<running, config, cash, realized_pnl, trading_mode, has_key,
                   markets, active_market_slug, current_position,
                   trade_history, last_completed_cycle,
                   last_cycle_complete_time, writer_queue, now>>

\* What PolymarketClient::place_order may answer.
PlaceOrderResults ==
    {[success |-> FALSE, price |-> 0]}
        \cup {[success |-> TRUE, price |-> p] : p \in FillPrices}

\* The Trade built by execute_paper_trade / execute_live_trade; the leg is
\* read from current_position_ before the mutex is taken. Its id and its
\* timestamp are readings of the clock that the engine never reads back:
\* the instant of creation is the value of now at this step.
NewTrade(is_live, price) ==
    [market_slug |-> loc.slug,
     leg |-> IF current_position # None THEN 2 ELSE 1,
     side |-> loc.side, token_id |-> loc.token, shares |-> loc.shares,
     price |-> price, cost |-> loc.shares * price, fee |-> 0, pnl |-> 0,
     is_live |-> is_live]

\* An execute_trade that charges the order before the venue answers.
Exec_ChargesRefusedOrder ==
    /\ Uncounted
    /\ pc = "exec"
    /\ IF trading_mode = "LIVE"
       THEN \E result \in PlaceOrderResults :
               IF ~result.success
               THEN /\ pc' = "idle" /\ loc' = IdleLoc
                    /\ cash' = cash - loc.shares * loc.price
               ELSE /\ pc' = "record"
                    /\ loc' = [loc EXCEPT !.trade =
                          NewTrade(TRUE, IF result.price > 0 THEN result.price
                                                             ELSE loc.price)]
                    /\ UNCHANGED cash
       ELSE /\ pc' = "record"
            /\ loc' = [loc EXCEPT !.trade = NewTrade(FALSE, loc.price)]
            /\ UNCHANGED cash
    /\ UNCHANGED <<running, config, realized_pnl, trading_mode, has_key,
                   markets, active_market_slug, current_position,
                   trade_history, last_completed_cycle,
                   last_cycle_complete_time, writer_queue, now>>

\* execute_trade: routing, the venue call of the live path, and the
\* construction of the Trade.
Exec ==
    /\ Uncounted
    /\ pc = "exec"
    /\ IF trading_mode = "LIVE"
       THEN \E result \in PlaceOrderResults :
               IF ~result.success
               THEN pc' = "idle" /\ loc' = IdleLoc
               ELSE /\ pc' = "record"
                    /\ loc' = [loc EXCEPT !.trade =
                          NewTrade(TRUE, IF result.price > 0 THEN result.price
                                                             ELSE loc.price)]
       ELSE /\ pc' = "record"
            /\ loc' = [loc EXCEPT !.trade = NewTrade(FALSE, loc.price)]
    /\ UNCHANGED <<running, config, cash, realized_pnl, trading_mode, has_key,
                   markets, active_market_slug, current_position,
                   trade_history, last_completed_cycle,
                   last_cycle_complete_time, writer_queue, now>>

\* The TradeRecord handed to AsyncTradeWriter::queue_trade.
TradeRecordOf(trade) ==
    [market_slug |-> trade.market_slug, leg |-> trade.leg,
     side |-> trade.side, token_id |-> trade.token_id,
     shares |-> trade.shares, price |-> trade.price, cost |-> trade.cost,
     fee |-> 0]

\* The profit a leg-2 trade books against the open position.
HedgeProfit(pos, price, shares) == (Dollar - pos.avg_cost - price) * shares

\* The copy of the trade that trade_history_.push_back stores: it is taken
\* before the profit is written to the local trade.
HistoryCopy(trade) == trade

\* Whether the locked block books the trade as a hedge.
BooksHedge(trade) == trade.leg = 2 /\ current_position # None

\* The cash after the locked block of execute_*_trade.
CashAfterTrade(trade) ==
    IF BooksHedge(trade)
    THEN cash - trade.cost + trade.shares * Dollar
    ELSE cash - trade.cost

\* The locked block of execute_paper_trade / execute_live_trade.
Record ==
    /\ Uncounted
    /\ pc = "record"
    /\ LET trade == loc.trade
       IN /\ trade_history' = Append(trade_history, HistoryCopy(trade))
          /\ writer_queue' = Append(writer_queue, TradeRecordOf(trade))
          /\ cash' = CashAfterTrade(trade)
          /\ IF BooksHedge(trade)
             THEN LET profit == HedgeProfit(current_position, trade.price,
                                            trade.shares)
                  IN /\ realized_pnl' = realized_pnl + profit
                     /\ loc' = [loc EXCEPT !.trade.pnl = profit]
             ELSE UNCHANGED <<realized_pnl, loc>>
    /\ pc' = "commit"
    /\ UNCHANGED <<running, config, trading_mode, has_key, markets,
                   active_market_slug, current_position,
                   last_completed_cycle, last_cycle_complete_time, now>>

\* The Position process_market creates from the leg-1 trade.
EntryPosition(trade) ==
    [market_slug |-> loc.slug, side |-> loc.side, shares |-> trade.shares,
     avg_cost |-> trade.price, total_cost |-> trade.cost,
     trades |-> <<trade>>]

\* The cycle record process_market freezes after the leg-2 trade.
CompletedCycle(pos, trade) ==
    [active |-> FALSE, status |-> "complete", leg1_side |-> pos.side,
     leg1_price |-> pos.avg_cost, leg1_shares |-> pos.shares,
     leg2_side |-> loc.side, leg2_price |-> loc.price,
     leg2_shares |-> pos.shares,
     total_cost |-> pos.total_cost + trade.cost,
     pnl |-> (Dollar - pos.avg_cost - loc.price) * pos.shares]

\* A process_market that evaluates the market again after an entry.
Commit_Reevaluates ==
    /\ Uncounted
    /\ pc = "commit"
    /\ IF loc.branch = "enter"
       THEN /\ current_position' = EntryPosition(loc.trade)
            /\ pc' = "gate"
            /\ loc' = [IdleLoc EXCEPT !.slug = loc.slug]
            /\ UNCHANGED <<last_completed_cycle, last_cycle_complete_time>>
       ELSE /\ \E pos \in PositionReads :
                  last_completed_cycle' = CompletedCycle(pos, loc.trade)
            /\ current_position' = None
            /\ last_cycle_complete_time' = now
            /\ pc' = "idle"
            /\ loc' = IdleLoc
    /\ UNCHANGED <<running, config, cash, realized_pnl, trading_mode, has_key,
                   markets, active_market_slug, trade_history, writer_queue,
                   now>>

\* process_market after execute_trade returned a trade: the position is
\* created (entry) or dropped (hedge), outside the mutex.
Commit ==
    /\ Uncounted
    /\ pc = "commit"
    /\ IF loc.branch = "enter"
       THEN /\ current_position' = EntryPosition(loc.trade)
            /\ UNCHANGED <<last_completed_cycle, last_cycle_complete_time>>
       ELSE /\ \E pos \in PositionReads :
                  last_completed_cycle' = CompletedCycle(pos, loc.trade)
            /\ current_position' = None
            /\ last_cycle_complete_time' = now
    /\ pc' = "idle"
    /\ loc' = IdleLoc
    /\ UNCHANGED <<running, config, cash, realized_pnl, trading_mode, has_key,
                   markets, active_market_slug, trade_history, writer_queue,
                   now>>

\* ------------------------------------------------------------------ Next
Next ==
    \/ Start
    \/ Stop
    \/ SetMarket
    \/ SetEntryThreshold
    \/ SetShares
    \/ SetSumTarget
    \/ SetTradingWindow
    \/ SetTradingMode
    \/ ResetPaperTrading
    \/ Tick
    \/ OnOrderbookUpdate
    \/ Gate
    \/ Decide
    \/ Exec
    \/ Record
    \/ Commit

Spec == Init /\ [][Next]_vars

\* =========================================================== trade writer
\* AsyncTradeWriter and the three threads that use it: the thread that owns
\* it (start, stop), the thread that hands it trades (queue_trade) and its
\* own worker (worker_loop).  mutex_ is held across a call of insert_trade
\* only by the drain loop that ends worker_loop; every other critical
\* section is one step.

\* The writer as constructed, beside an engine that is not driven.
InitWriter ==
    /\ EngineInit
    /\ config = InitConfig
    /\ has_key
    /\ active_market_slug = ""
    /\ writer = WriterConstructed
    /\ stream = StreamConstructed
    /\ quote = NoQuote
    /\ pair = NoPair
    /\ supervisor = NoSupervisor
    /\ locks = NoLocks

MutexHeldByDrain == writer.wpc \in {"drain", "drain_insert"}

\* cv_.notify_one / notify_all: only a thread blocked in cv_.wait is woken.
Notified(w) == IF w.wpc = "blocked" THEN [w EXCEPT !.wpc = "lock"] ELSE w

\* AsyncTradeWriter::start.
WriterStart ==
    /\ writer.spc = "idle"
    /\ writer.wpc = "none"
    /\ writer' = IF writer.running THEN writer
                 ELSE [writer EXCEPT !.running = TRUE, !.wpc = "loop"]
    /\ UNCHANGED <<engine_vars, stream, quote, pair, supervisor, locks>>

\* AsyncTradeWriter::stop: running_.exchange(false), ...
WriterStopExchange ==
    /\ writer.spc = "idle"
    /\ writer' = IF ~writer.running THEN writer
                 ELSE [writer EXCEPT !.running = FALSE, !.spc = "notify"]
    /\ UNCHANGED <<engine_vars, stream, quote, pair, supervisor, locks>>

\* ... cv_.notify_all(), ...
WriterStopNotify ==
    /\ writer.spc = "notify"
    /\ writer' = [Notified(writer) EXCEPT !.spc = "join"]
    /\ UNCHANGED <<engine_vars, stream, quote, pair, supervisor, locks>>

\* ... worker_.join().
WriterStopJoin ==
    /\ writer.spc = "join"
    /\ writer.wpc = "done"
    /\ writer' = [writer EXCEPT !.spc = "idle", !.wpc = "none"]
    /\ UNCHANGED <<engine_vars, stream, quote, pair, supervisor, locks>>

\* AsyncTradeWriter::queue_trade is entered, ...
QueueTradeCall ==
    /\ writer.ppc = "idle"
    /\ writer.next <= MaxEnqueue
    /\ writer' = [writer EXCEPT !.ppc = "push"]
    /\ UNCHANGED <<engine_vars, stream, quote, pair, supervisor, locks>>

\* ... pushes the trade under mutex_, ...
QueueTradePush ==
    /\ writer.ppc = "push"
    /\ ~MutexHeldByDrain
    /\ writer' = [writer EXCEPT !.queue = Append(@, writer.next),
                                !.ppc = "notify"]
    /\ UNCHANGED <<engine_vars, stream, quote, pair, supervisor, locks>>

\* ... cv_.notify_one(), ...
QueueTradeNotify ==
    /\ writer.ppc = "notify"
    /\ writer' = [Notified(writer) EXCEPT !.ppc = "count"]
    /\ UNCHANGED <<engine_vars, stream, quote, pair, supervisor, locks>>

\* ... and logs pending_count(), which takes mutex_ again.
QueueTradeCount ==
    /\ writer.ppc = "count"
    /\ ~MutexHeldByDrain
    /\ writer' = [writer EXCEPT !.ppc = "idle", !.next = @ + 1]
    /\ UNCHANGED <<engine_vars, stream, quote, pair, supervisor, locks>>

\* worker_loop: while (running_).
WorkerLoopTest ==
    /\ writer.wpc = "loop"
    /\ writer' = [writer EXCEPT
                     !.wpc = IF writer.running THEN "lock" ELSE "drain_lock"]
    /\ UNCHANGED <<engine_vars, stream, quote, pair, supervisor, locks>>

\* worker_loop: the predicate of cv_.wait under mutex_, then the break, or
\* the pop of the front trade.
WorkerWait ==
    /\ writer.wpc = "lock"
    /\ writer' =
         IF writer.queue = <<>> /\ writer.running
         THEN [writer EXCEPT !.wpc = "parking"]
         ELSE IF writer.queue = <<>>
         THEN [writer EXCEPT !.wpc = "drain_lock"]
         ELSE [writer EXCEPT !.cur = Head(writer.queue),
                             !.queue = Tail(@),
                             !.wpc = "insert"]
    /\ UNCHANGED <<engine_vars, stream, quote, pair, supervisor, locks>>

\* cv_.wait: the predicate was false, the worker blocks.  stop() changes
\* running_ and notifies without mutex_, so both can fall before this step.
WorkerBlock ==
    /\ writer.wpc = "parking"
    /\ writer' = [writer EXCEPT !.wpc = "blocked"]
    /\ UNCHANGED <<engine_vars, stream, quote, pair, supervisor, locks>>

\* cv_.wait may wake without a notification.
WorkerSpuriousWake ==
    /\ writer.wpc = "blocked"
    /\ writer' = [writer EXCEPT !.wpc = "lock"]
    /\ UNCHANGED <<engine_vars, stream, quote, pair, supervisor, locks>>

\* The insert that re-queues the trade when the store refuses it.
InsertOutcome_Requeue(w, ok) ==
    [w EXCEPT !.log = Append(@, [id |-> w.cur, ok |-> ok]),
              !.queue = IF ok THEN @ ELSE Append(@, w.cur),
              !.cur = 0]
\* Database::insert_trade returns true or false; worker_loop logs either
\* result and drops the trade.
InsertOutcome(w, ok) ==
    [w EXCEPT !.log = Append(@, [id |-> w.cur, ok |-> ok]), !.cur = 0]

\* worker_loop: db_.insert_trade(trade) outside mutex_.
WorkerInsert ==
    /\ writer.wpc = "insert"
    /\ \E ok \in BOOLEAN :
         writer' = [InsertOutcome(writer, ok) EXCEPT !.wpc = "loop"]
    /\ UNCHANGED <<engine_vars, stream, quote, pair, supervisor, locks>>

\* worker_loop after the loop: lock_guard on mutex_.
WorkerDrainLock ==
    /\ writer.wpc = "drain_lock"
    /\ writer' = [writer EXCEPT !.wpc = "drain"]
    /\ UNCHANGED <<engine_vars, stream, quote, pair, supervisor, locks>>

\* The drain loop: while (!queue_.empty()) pop, ...
WorkerDrainPop ==
    /\ writer.wpc = "drain"
    /\ writer' =
         IF writer.queue = <<>>
         THEN [writer EXCEPT !.wpc = "done"]
         ELSE [writer EXCEPT !.cur = Head(writer.queue),
                             !.queue = Tail(@),
                             !.wpc = "drain_insert"]
    /\ UNCHANGED <<engine_vars, stream, quote, pair, supervisor, locks>>

\* ... db_.insert_trade(trade), still under mutex_.
WorkerDrainInsert ==
    /\ writer.wpc = "drain_insert"
    /\ \E ok \in BOOLEAN :
         writer' = [InsertOutcome(writer, ok) EXCEPT !.wpc = "drain"]
    /\ UNCHANGED <<engine_vars, stream, quote, pair, supervisor, locks>>

NextWriter ==
    \/ WriterStart
    \/ WriterStopExchange
    \/ WriterStopNotify
    \/ WriterStopJoin
    \/ QueueTradeCall
    \/ QueueTradePush
    \/ QueueTradeNotify
    \/ QueueTradeCount
    \/ WorkerLoopTest
    \/ WorkerWait
    \/ WorkerBlock
    \/ WorkerSpuriousWake
    \/ WorkerInsert
    \/ WorkerDrainLock
    \/ WorkerDrainPop
    \/ WorkerDrainInsert

SpecWriter == InitWriter /\ [][NextWriter]_vars

\* =========================================================== price stream
\* WebSocketPriceStream and the threads that use it: the thread that owns it
\* (start, stop), the supervisor thread (subscribe, clear_subscriptions) and
\* its own worker (run, connect, read_loop).  unsubscribe() and reconnect()
\* have no caller in main.cpp and are not modelled.

InitStream ==
    /\ EngineInit
    /\ config = InitConfig
    /\ has_key
    /\ active_market_slug = ""
    /\ writer = WriterStarted
    /\ stream = StreamConstructed
    /\ quote = NoQuote
    /\ pair = NoPair
    /\ supervisor = NoSupervisor
    /\ locks = NoLocks

\* ---- inbound messages.  A JSON scalar is a string or a number; prices are
\* in cents.
Encodings == {"string", "number"}
Scalar(enc, v) == [kind |-> enc, val |-> v]
LevelOf(enc, price, size) ==
    [price |-> Scalar(enc, price), size |-> Scalar(enc, size)]
BookObject(enc, token, asks, bids) ==
    [asset_id |-> token,
     asks |-> [i \in 1..Len(asks) |-> LevelOf(enc, asks[i][1], asks[i][2])],
     bids |-> [i \in 1..Len(bids) |-> LevelOf(enc, bids[i][1], bids[i][2])]]
ChangeOf(enc, token, bid, ask) ==
    [asset_id |-> token,
     best_bid |-> Scalar(enc, bid), best_ask |-> Scalar(enc, ask)]
UpBook(enc) == BookObject(enc, "u1", <<<<65, 50>>, <<35, 50>>>>, <<<<30, 50>>>>)
DownBook(enc) == BookObject(enc, "d1", <<<<64, 50>>>>, <<>>)
\* The three shapes: one book object, an array of book objects, a
\* price_changes batch.
MessagesIn(enc) ==
    { [shape |-> "book", items |-> <<UpBook(enc)>>, changes |-> <<>>],
      [shape |-> "array", items |-> <<UpBook(enc), DownBook(enc)>>,
       changes |-> <<>>],
      [shape |-> "price_changes", items |-> <<>>,
       changes |-> <<ChangeOf(enc, "u1", 30, 35),
                     ChangeOf(enc, "d1", 0, 64)>>] }
Messages == UNION { MessagesIn(enc) : enc \in Encodings }

\* ---- the parser of read_loop.
\* std::stod(x.get<std::string>()): get<std::string>() throws a
\* json::type_error when x is a number.
ParseLevels(levels) ==
    IF \A i \in 1..Len(levels) :
         levels[i].price.kind = "string" /\ levels[i].size.kind = "string"
    THEN [ok |-> TRUE,
          levels |-> [i \in 1..Len(levels) |->
                        <<levels[i].price.val, levels[i].size.val>>]]
    ELSE [ok |-> FALSE, levels |-> <<>>]

\* One book object: all asks, then all bids, then the callback unless both
\* are empty.
ParseBookObject(item) ==
    LET asks == ParseLevels(item.asks)
        bids == ParseLevels(item.bids)
    IN  IF asks.ok /\ bids.ok
        THEN [ok |-> TRUE,
              events |-> IF asks.levels # <<>> \/ bids.levels # <<>>
                         THEN <<[token_id |-> item.asset_id,
                                 asks |-> asks.levels,
                                 bids |-> bids.levels]>>
                         ELSE <<>>]
        ELSE [ok |-> FALSE, events |-> <<>>]

\* The items of an array in array order; the exception of one item leaves
\* the catch (json::exception) to drop the rest of the message.
RECURSIVE ParseItems(_)
ParseItems(items) ==
    IF items = <<>> THEN <<>>
    ELSE LET first == ParseBookObject(Head(items))
         IN  IF first.ok THEN first.events \o ParseItems(Tail(items))
             ELSE <<>>

\* best_bid / best_ask of a price change: is_string() ? stod : get<double>.
ScalarValue(x) == x.val

\* One price change: a one-level book of size 100 per side that is present.
ParseChange(change) ==
    LET best_bid == ScalarValue(change.best_bid)
        best_ask == ScalarValue(change.best_ask)
    IN  IF change.asset_id # "" /\ (best_bid > 0 \/ best_ask > 0)
        THEN <<[token_id |-> change.asset_id,
                asks |-> IF best_ask > 0 THEN <<<<best_ask, 100>>>> ELSE <<>>,
                bids |-> IF best_bid > 0 THEN <<<<best_bid, 100>>>> ELSE <<>>]>>
        ELSE <<>>

RECURSIVE ParseChanges(_)
ParseChanges(changes) ==
    IF changes = <<>> THEN <<>>
    ELSE ParseChange(Head(changes)) \o ParseChanges(Tail(changes))

\* The order-book callbacks one message leads to, in call order.
ParseMessage(m) ==
    IF m.shape = "price_changes" THEN ParseChanges(m.changes)
    ELSE ParseItems(m.items)

\* Each event with the number of the message it came from.
Stamp(events, n) ==
    [i \in 1..Len(events) |->
       [n |-> n, token_id |-> events[i].token_id,
        asks |-> events[i].asks, bids |-> events[i].bids]]

\* ---- the owner's and the supervisor's calls.

\* WebSocketPriceStream::start.
StreamStart ==
    /\ stream.spc = "idle"
    /\ stream.wpc = "none"
    /\ stream' = IF stream.running THEN stream
                 ELSE [stream EXCEPT !.running = TRUE, !.wpc = "top"]
    /\ UNCHANGED <<engine_vars, writer, quote, pair, supervisor, locks>>

\* WebSocketPriceStream::stop: running_ = false, ...
StreamStopFlag ==
    /\ stream.spc = "idle"
    /\ stream' = [stream EXCEPT !.running = FALSE, !.spc = "cancel"]
    /\ UNCHANGED <<engine_vars, writer, quote, pair, supervisor, locks>>

\* ... cancel() on the socket when there is one and connected_ is set.  The
\* worker may be inside the synchronous ws_->read at that moment: the call
\* races with it and either ends the read with an error or leaves it
\* blocked; a read the worker has not begun is not touched.
StreamStopCancel ==
    /\ stream.spc = "cancel"
    /\ \E aborted \in BOOLEAN :
         stream' = [stream EXCEPT
                      !.spc = "join",
                      !.wpc = IF /\ stream.ws /\ stream.connected
                                 /\ stream.wpc = "reading" /\ aborted
                              THEN "read_exit" ELSE @]
    /\ UNCHANGED <<engine_vars, writer, quote, pair, supervisor, locks>>

\* ... worker_thread_.join() when joinable, connected_ = false.
StreamStopJoin ==
    /\ stream.spc = "join"
    /\ stream.wpc \in {"none", "exited"}
    /\ stream' = [stream EXCEPT !.spc = "idle", !.wpc = "none",
                                !.connected = FALSE]
    /\ UNCHANGED <<engine_vars, writer, quote, pair, supervisor, locks>>

InTokens(tokens, t) == \E i \in 1..Len(tokens) : tokens[i] = t

\* subscribe without the scan for the token.
subscribe_NoScan(token_id) ==
    [stream EXCEPT
       !.tokens = Append(@, token_id),
       !.sent = IF stream.connected /\ stream.ws
                THEN Append(@, token_id) ELSE @]
\* WebSocketPriceStream::subscribe under mutex_.
subscribe(token_id) ==
    IF InTokens(stream.tokens, token_id) THEN stream
    ELSE [stream EXCEPT
            !.tokens = Append(@, token_id),
            !.sent = IF stream.connected /\ stream.ws
                     THEN Append(@, token_id) ELSE @]

Subscribe ==
    /\ stream.calls < MaxCalls
    /\ \E token_id \in {"u1", "d1"} :
         stream' = [subscribe(token_id) EXCEPT !.calls = @ + 1]
    /\ UNCHANGED <<engine_vars, writer, quote, pair, supervisor, locks>>

\* clear_subscriptions that tells the venue.
clear_subscriptions_Unsubscribes ==
    [stream EXCEPT !.tokens = <<>>,
                   !.sent = IF stream.connected /\ stream.ws
                            THEN @ \o stream.tokens ELSE @]
\* WebSocketPriceStream::clear_subscriptions under mutex_.
clear_subscriptions == [stream EXCEPT !.tokens = <<>>]

ClearSubscriptions ==
    /\ stream.calls < MaxCalls
    /\ stream' = [clear_subscriptions EXCEPT !.calls = @ + 1]
    /\ UNCHANGED <<engine_vars, writer, quote, pair, supervisor, locks>>

\* ---- the worker.

\* run: while (running_).
RunTest ==
    /\ stream.wpc = "top"
    /\ stream' = [stream EXCEPT
                    !.wpc = IF stream.running THEN "connecting" ELSE "exited"]
    /\ UNCHANGED <<engine_vars, writer, quote, pair, supervisor, locks>>

\* connect up to connected_ = true, or an exception on the way, caught in
\* run (connected_ = false).
Connect ==
    /\ stream.wpc = "connecting"
    /\ \/ stream' = [stream EXCEPT !.ws = TRUE, !.connected = TRUE,
                                   !.sent = <<>>, !.wpc = "resubscribe"]
       \/ stream' = [stream EXCEPT !.ws = TRUE, !.connected = FALSE,
                                   !.wpc = "after"]
    /\ UNCHANGED <<engine_vars, writer, quote, pair, supervisor, locks>>

\* connect: under mutex_, send_subscribe for every token of
\* subscribed_tokens_ (send_subscribe returns at once when not connected).
ConnectResubscribe ==
    /\ stream.wpc = "resubscribe"
    /\ stream' = [stream EXCEPT
                    !.sent = IF stream.connected /\ stream.ws
                             THEN @ \o stream.tokens ELSE @,
                    !.wpc = "connected"]
    /\ UNCHANGED <<engine_vars, writer, quote, pair, supervisor, locks>>

\* run: if (connected_) read_loop().
RunConnected ==
    /\ stream.wpc = "connected"
    /\ stream' = [stream EXCEPT
                    !.wpc = IF stream.connected THEN "read_test" ELSE "after"]
    /\ UNCHANGED <<engine_vars, writer, quote, pair, supervisor, locks>>

\* read_loop: while (running_ && connected_).
ReadLoopTest ==
    /\ stream.wpc = "read_test"
    /\ stream' = [stream EXCEPT
                    !.wpc = IF stream.running /\ stream.connected
                            THEN "reading" ELSE "read_exit"]
    /\ UNCHANGED <<engine_vars, writer, quote, pair, supervisor, locks>>

\* read_loop: ws_->read returns a message, which is parsed.
ReadMessage ==
    /\ stream.wpc = "reading"
    /\ stream.reads < MaxReads
    /\ \E m \in Messages :
         stream' = [stream EXCEPT
                      !.reads = @ + 1,
                      !.msg = m,
                      !.pending = Stamp(ParseMessage(m), stream.reads + 1),
                      !.wpc = "deliver"]
    /\ UNCHANGED <<engine_vars, writer, quote, pair, supervisor, locks>>

\* read_loop: ws_->read throws a system_error; break.
ReadFails ==
    /\ stream.wpc = "reading"
    /\ stream' = [stream EXCEPT !.wpc = "read_exit"]
    /\ UNCHANGED <<engine_vars, writer, quote, pair, supervisor, locks>>

\* The callback that is given the newest event first.
Delivered_NewestFirst ==
    [stream EXCEPT
       !.delivered = Append(@, stream.pending[Len(stream.pending)]),
       !.pending = SubSeq(@, 1, Len(@) - 1)]
\* read_loop: orderbook_callback_(book_update) for the next item.
Delivered ==
    [stream EXCEPT !.delivered = Append(@, Head(stream.pending)),
                   !.pending = Tail(@)]

Deliver ==
    /\ stream.wpc = "deliver"
    /\ stream.pending # <<>>
    /\ stream' = Delivered
    /\ UNCHANGED <<engine_vars, writer, quote, pair, supervisor, locks>>

\* read_loop: the message is done, back to the loop test.
ReadNext ==
    /\ stream.wpc = "deliver"
    /\ stream.pending = <<>>
    /\ stream' = [stream EXCEPT !.msg = NoMessage, !.wpc = "read_test"]
    /\ UNCHANGED <<engine_vars, writer, quote, pair, supervisor, locks>>

\* read_loop after the loop: connected_ = false.
ReadLoopExit ==
    /\ stream.wpc = "read_exit"
    /\ stream' = [stream EXCEPT !.connected = FALSE, !.wpc = "after"]
    /\ UNCHANGED <<engine_vars, writer, quote, pair, supervisor, locks>>

\* run: if (running_) sleep_for(2 s), ...
RunSleepTest ==
    /\ stream.wpc = "after"
    /\ stream' = [stream EXCEPT
                    !.wpc = IF stream.running THEN "sleeping" ELSE "top"]
    /\ UNCHANGED <<engine_vars, writer, quote, pair, supervisor, locks>>

\* ... and the sleep is over.
RunSleep ==
    /\ stream.wpc = "sleeping"
    /\ stream' = [stream EXCEPT !.wpc = "top"]
    /\ UNCHANGED <<engine_vars, writer, quote, pair, supervisor, locks>>

WorkerStep ==
    \/ RunTest
    \/ Connect
    \/ ConnectResubscribe
    \/ RunConnected
    \/ ReadLoopTest
    \/ Deliver
    \/ ReadNext
    \/ ReadLoopExit
    \/ RunSleepTest
    \/ RunSleep

NextStream ==
    \/ StreamStart
    \/ StreamStopFlag
    \/ StreamStopCancel
    \/ StreamStopJoin
    \/ Subscribe
    \/ ClearSubscriptions
    \/ RunTest
    \/ Connect
    \/ ConnectResubscribe
    \/ RunConnected
    \/ ReadLoopTest
    \/ ReadMessage
    \/ ReadFails
    \/ Deliver
    \/ ReadNext
    \/ ReadLoopExit
    \/ RunSleepTest
    \/ RunSleep

SpecStream == InitStream /\ [][NextStream]_vars

\* The worker's own steps and the steps inside stop() are taken when they
\* can be; whether the venue sends another message or the read fails is up
\* to the peer.
StopProgress ==
    \/ StreamStopCancel
    \/ StreamStopJoin

SpecStreamFair ==
    /\ InitStream
    /\ [][NextStream]_vars
    /\ WF_vars(WorkerStep)
    /\ WF_vars(StopProgress)

\* =========================================================== best of book
\* get_best_bid / get_best_ask on books whose levels come in any order.

LevelPrices == {34, 35, 65}
Levels == { <<p, 50>> : p \in LevelPrices }
LevelLists == UNION { [1..n -> Levels] : n \in 0..MaxLevels }

InitBook ==
    /\ EngineInit
    /\ config = InitConfig
    /\ has_key
    /\ active_market_slug = ""
    /\ writer = WriterStarted
    /\ stream = StreamConstructed
    /\ \E asks \in LevelLists, bids \in LevelLists :
         quote = [NoQuote EXCEPT !.asks = asks, !.bids = bids]
    /\ pair = NoPair
    /\ supervisor = NoSupervisor
    /\ locks = NoLocks

\* TradingEngine::get_best_bid / get_best_ask of cpp-bot.
GetBestOfBook ==
    /\ ~quote.done
    /\ quote' = [quote EXCEPT !.done = TRUE,
                              !.best_ask = get_best_ask(quote),
                              !.best_bid = get_best_bid(quote)]
    /\ UNCHANGED <<engine_vars, writer, stream, pair, supervisor, locks>>

\* TradingEngine::get_best_bid / get_best_ask of src/src/engine.
GetBestOfBookLegacy ==
    /\ ~quote.legacy_done
    /\ quote' = [quote EXCEPT !.legacy_done = TRUE,
                              !.legacy_ask = get_best_ask_legacy(quote),
                              !.legacy_bid = get_best_bid_legacy(quote)]
    /\ UNCHANGED <<engine_vars, writer, stream, pair, supervisor, locks>>

NextBook ==
    \/ GetBestOfBook
    \/ GetBestOfBookLegacy

SpecBook == InitBook /\ [][NextBook]_vars

\* ============================================================ two engines
\* Two TradingEngine objects built side by side and fed the same events by
\* one thread: every call returns before the next one starts.  The two
\* differ in the trading mode (kind "modes": the left engine simulates, the
\* right one places live orders) or only in the reserved fields of Config
\* (kind "reserved").

\* The Config of main(), with the fields the header reserves (dca_levels in
\* cents, dca_multiplier in hundredths).
PairConfig ==
    [entry_threshold |-> 36, move |-> 36, shares |-> 10,
     dca_enabled |-> TRUE, dca_levels |-> <<30, 25, 20, 15>>,
     dca_multiplier |-> 150, sum_target |-> 99, breakeven_enabled |-> TRUE,
     dump_window_sec |-> 120]

\* Configs that differ from PairConfig in reserved fields only.
ReservedConfigs ==
    { [PairConfig EXCEPT !.breakeven_enabled = FALSE],
      [PairConfig EXCEPT !.dca_enabled = FALSE, !.dca_levels = <<40>>,
                         !.dca_multiplier = 100] }

\* A constructed and started engine with the market of the first window.
EngineObject(mode, cfg, funds) ==
    [running |-> TRUE, config |-> cfg, cash |-> funds, realized_pnl |-> 0,
     trading_mode |-> mode, active_market_slug |-> FirstSlug,
     markets |-> [s \in {FirstSlug} |->
                     NewMarket(s, TokensOf(s)[1], TokensOf(s)[2])],
     current_position |-> None, trade_history |-> <<>>,
     last_completed_cycle |-> EmptyCycle, last_cycle_complete_time |-> 0]

\* How the venue answers a limit order: filled at the price asked, filled
\* a cent lower, or refused.
Venues == {"requested", "lower", "refused"}
AtRequestedPrice == {"requested"}
PlaceOrderOn(venue, price) ==
    CASE venue = "requested" -> [success |-> TRUE, price |-> price]
      [] venue = "lower" -> [success |-> TRUE, price |-> price - 1]
      [] OTHER -> [success |-> FALSE, price |-> 0]

InitPair ==
    /\ EngineInit
    /\ config = InitConfig
    /\ has_key
    /\ active_market_slug = ""
    /\ writer = WriterStarted
    /\ stream = StreamConstructed
    /\ quote = NoQuote
    /\ supervisor = NoSupervisor
    /\ locks = NoLocks
    /\ \/ \E funds \in Balances \cup {InitialCash} :
            pair = [kind |-> "modes",
                    left |-> EngineObject("PAPER", PairConfig, InitialCash),
                    right |-> EngineObject("LIVE", PairConfig, funds),
                    now |-> 1795, clean |-> TRUE]
       \/ \E mode \in {"PAPER", "LIVE"}, cfg \in ReservedConfigs :
            pair = [kind |-> "reserved",
                    left |-> EngineObject(mode, PairConfig, InitialCash),
                    right |-> EngineObject(mode, cfg, InitialCash),
                    now |-> 1795, clean |-> TRUE]

\* set_market on one engine.
SetMarketOn(e, slug, up, down) ==
    LET abandons == e.active_market_slug # slug /\ e.current_position # None
        pos == e.current_position
        kept == IF e.active_market_slug # slug THEN {} ELSE DOMAIN e.markets
    IN [e EXCEPT
          !.last_completed_cycle =
              IF abandons
              THEN [@ EXCEPT !.active = FALSE, !.status = "incomplete",
                             !.leg1_side = pos.side,
                             !.leg1_price = pos.avg_cost,
                             !.leg1_shares = pos.shares,
                             !.total_cost = pos.total_cost,
                             !.pnl = 0 - pos.total_cost]
              ELSE @,
          !.realized_pnl = IF abandons THEN @ - pos.total_cost ELSE @,
          !.current_position = IF abandons THEN None ELSE @,
          !.active_market_slug = slug,
          !.markets = [s \in kept \cup {slug} |->
                          IF s = slug THEN NewMarket(slug, up, down)
                                      ELSE e.markets[s]]]

\* An entry test whose threshold depends on dca_enabled.
ShouldEnterOn_Dca(cfg, market) ==
    LET up_ask == get_best_ask(market.up_orderbook)
        down_ask == get_best_ask(market.down_orderbook)
        limit == IF cfg.dca_enabled THEN cfg.move ELSE cfg.entry_threshold - 2
    IN IF up_ask < limit THEN <<"UP", up_ask>>
       ELSE IF down_ask < limit THEN <<"DOWN", down_ask>>
       ELSE <<>>

\* should_enter with the config_ of the engine: reads move only.
ShouldEnterOn(cfg, market) ==
    LET up_ask == get_best_ask(market.up_orderbook)
        down_ask == get_best_ask(market.down_orderbook)
    IN IF up_ask < cfg.move THEN <<"UP", up_ask>>
       ELSE IF down_ask < cfg.move THEN <<"DOWN", down_ask>>
       ELSE <<>>

\* should_hedge with the config_ of the engine: reads sum_target only.
ShouldHedgeOn(cfg, pos, market) ==
    LET opposite_book == IF pos.side = "UP" THEN market.down_orderbook
                                            ELSE market.up_orderbook
        opposite_ask == get_best_ask(opposite_book)
    IN IF pos.avg_cost + opposite_ask <= cfg.sum_target
       THEN <<opposite_ask>> ELSE <<>>

\* The Trade both paths build (id and timestamp are not kept).
TradeOn(e, a, price, is_live) ==
    [market_slug |-> a.slug,
     leg |-> IF e.current_position # None THEN 2 ELSE 1,
     side |-> a.side, token_id |-> a.token_id, shares |-> a.shares,
     price |-> price, cost |-> a.shares * price, fee |-> 0, pnl |-> 0,
     is_live |-> is_live]

\* The locked block of execute_paper_trade (444-475), repeated word for
\* word in execute_live_trade (523-554): the engine after it and the trade
\* returned.
LockedBlockOn(e, trade) ==
    LET hedge == trade.leg = 2 /\ e.current_position # None
        profit == IF hedge
                  THEN HedgeProfit(e.current_position, trade.price,
                                   trade.shares)
                  ELSE 0
    IN [trade |-> [trade EXCEPT !.pnl = profit],
        engine |-> [e EXCEPT
            !.trade_history = Append(@, trade),
            !.cash = IF hedge THEN @ - trade.cost + trade.shares * Dollar
                              ELSE @ - trade.cost,
            !.realized_pnl = @ + profit]]

execute_paper_trade(e, a) == LockedBlockOn(e, TradeOn(e, a, a.price, FALSE))

\* A live path that books no payout for the hedge.
execute_live_trade_NoPayout(e, a, venue) ==
    LET result == PlaceOrderOn(venue, a.price)
        booked == LockedBlockOn(e, TradeOn(e, a,
                      IF result.price > 0 THEN result.price ELSE a.price,
                      TRUE))
    IN IF ~result.success
       THEN [trade |-> None, engine |-> e]
       ELSE [booked EXCEPT !.engine.cash = e.cash - booked.trade.cost]

execute_live_trade(e, a, venue) ==
    LET result == PlaceOrderOn(venue, a.price)
    IN IF ~result.success
       THEN [trade |-> None, engine |-> e]
       ELSE LockedBlockOn(e, TradeOn(e, a,
                IF result.price > 0 THEN result.price ELSE a.price, TRUE))

\* execute_trade: both engines of a pair have a venue client.
execute_trade(e, a, venue) ==
    IF e.trading_mode = "LIVE"
    THEN execute_live_trade(e, a, venue)
    ELSE execute_paper_trade(e, a)

\* process_market at clock value t.
ProcessMarketOn(e, t, slug, venue) ==
    IF slug \notin DOMAIN e.markets THEN e
    ELSE
    LET market == e.markets[slug]
        time_left == WindowSec - (t - MarketStartTime(slug))
        pos == e.current_position
    IN IF time_left < 0 \/ time_left > e.config.dump_window_sec THEN e
       ELSE IF pos = None
       THEN IF t - e.last_cycle_complete_time < CooldownSec THEN e
            ELSE LET s == ShouldEnterOn(e.config, market)
                 IN IF s = <<>> THEN e
                    ELSE LET r == execute_trade(e,
                                    [slug |-> slug, side |-> s[1],
                                     token_id |-> TokenOf(market, s[1]),
                                     shares |-> e.config.shares,
                                     price |-> s[2]], venue)
                         IN IF r.trade = None THEN r.engine
                            ELSE [r.engine EXCEPT !.current_position =
                                    [market_slug |-> slug, side |-> s[1],
                                     shares |-> r.trade.shares,
                                     avg_cost |-> r.trade.price,
                                     total_cost |-> r.trade.cost,
                                     trades |-> <<r.trade>>]]
       ELSE IF pos.market_slug = slug
       THEN LET h == ShouldHedgeOn(e.config, pos, market)
                opposite_side == IF pos.side = "UP" THEN "DOWN" ELSE "UP"
            IN IF h = <<>> THEN e
               ELSE LET r == execute_trade(e,
                               [slug |-> slug, side |-> opposite_side,
                                token_id |-> TokenOf(market, opposite_side),
                                shares |-> pos.shares, price |-> h[1]],
                               venue)
                    IN IF r.trade = None THEN r.engine
                       ELSE [r.engine EXCEPT
                               !.last_completed_cycle =
                                   [@ EXCEPT
                                      !.active = FALSE,
                                      !.status = "complete",
                                      !.leg1_side = pos.side,
                                      !.leg1_price = pos.avg_cost,
                                      !.leg1_shares = pos.shares,
                                      !.leg2_side = opposite_side,
                                      !.leg2_price = h[1],
                                      !.leg2_shares = pos.shares,
                                      !.total_cost =
                                          pos.total_cost + r.trade.cost,
                                      !.pnl = (Dollar - pos.avg_cost - h[1])
                                                * pos.shares],
                               !.current_position = None,
                               !.last_cycle_complete_time = t]
       ELSE e

\* on_orderbook_update at clock value t, process_market included.
OnOrderbookUpdateOn(e, t, token_id, snapshot, venue) ==
    IF ~e.running THEN e
    ELSE LET owners == {s \in DOMAIN e.markets :
                           e.markets[s].up_token_id = token_id
                           \/ e.markets[s].down_token_id = token_id}
         IN IF owners = {} THEN e
            ELSE LET slug == CHOOSE s \in owners : TRUE
                     stored == [e EXCEPT !.markets[slug] =
                                   ApplyBook(@, token_id, snapshot)]
                 IN ProcessMarketOn(stored, t, slug, venue)

\* The supervisor rotates both engines.
PairSetMarket ==
    /\ \E slug \in Slugs :
         pair' = [pair EXCEPT
            !.left = SetMarketOn(@, slug, TokensOf(slug)[1], TokensOf(slug)[2]),
            !.right = SetMarketOn(@, slug, TokensOf(slug)[1], TokensOf(slug)[2])]
    /\ UNCHANGED <<engine_vars, writer, stream, quote, supervisor, locks>>

\* The same snapshot reaches both engines; the venue answers the orders of
\* this update in one way.  A pair of modes is followed for as long as the
\* venue fills every order at the price asked.
PairOnOrderbookUpdate ==
    /\ pair.clean
    /\ Len(pair.left.trade_history) < MaxPairTrades
    /\ Len(pair.right.trade_history) < MaxPairTrades
    /\ \E token_id \in Tokens, asks \in AskBooks, venue \in Venues :
         LET snapshot == [bids |-> <<>>, asks |-> asks]
         IN pair' = [pair EXCEPT
               !.left = OnOrderbookUpdateOn(@, pair.now, token_id, snapshot,
                                            venue),
               !.right = OnOrderbookUpdateOn(@, pair.now, token_id, snapshot,
                                             venue),
               !.clean = @ /\ (pair.kind = "modes" =>
                                  venue \in AtRequestedPrice)]
    /\ UNCHANGED <<engine_vars, writer, stream, quote, supervisor, locks>>

\* set_dca_enabled on the right engine only.
SetDcaEnabledOn(e, value) == [e EXCEPT !.config.dca_enabled = value]

PairSetDcaEnabled ==
    /\ pair.kind = "reserved"
    /\ \E value \in BOOLEAN :
         /\ pair.right.config.dca_enabled # value
         /\ pair' = [pair EXCEPT !.right = SetDcaEnabledOn(@, value)]
    /\ UNCHANGED <<engine_vars, writer, stream, quote, supervisor, locks>>

PairTick ==
    /\ \E t \in TimePoints : t > pair.now /\ pair' = [pair EXCEPT !.now = t]
    /\ UNCHANGED <<engine_vars, writer, stream, quote, supervisor, locks>>

NextPair ==
    \/ PairSetMarket
    \/ PairOnOrderbookUpdate
    \/ PairSetDcaEnabled
    \/ PairTick

SpecPair == InitPair /\ [][NextPair]_vars

\* ============================================================= supervisor
\* The rotation loop of main(): every iteration reads the clock for
\* time_left, sleeps, reads the clock again for window_ts, pre-fetches the
\* tokens of the next window in the last 20 seconds, and switches the
\* engine when window_ts has changed.

\* Clock readings: 15 and 5 seconds before the boundary 1800, the boundary,
\* 5 seconds after it, and the same around the boundary 2700.
SupervisorTimes == {1785, 1795, 1800, 1805, 2685, 2700}

\* generate_market_slug
SlugOfWindow(ts) ==
    CASE ts = 900 -> "btc-updown-15m-900"
      [] ts = 1800 -> "btc-updown-15m-1800"
      [] ts = 2700 -> "btc-updown-15m-2700"
      [] OTHER -> "btc-updown-15m-3600"

\* The clobTokenIds the discovery service lists for a slug: UP, DOWN.
ListedTokens(slug) ==
    CASE slug = "btc-updown-15m-900" -> <<"u1", "d1">>
      [] slug = "btc-updown-15m-1800" -> <<"u2", "d2">>
      [] slug = "btc-updown-15m-2700" -> <<"u3", "d3">>
      [] OTHER -> <<"u4", "d4">>

InitSupervisor ==
    /\ EngineInit
    /\ config = InitConfig
    /\ has_key
    /\ active_market_slug = ""
    /\ writer = WriterStarted
    /\ stream = StreamConstructed
    /\ quote = NoQuote
    /\ pair = NoPair
    /\ locks = NoLocks
    /\ \E t \in {1785, 1795} : supervisor = [NoSupervisor EXCEPT !.now = t]

\* The wall clock moves on.
SupervisorTick ==
    /\ \E t \in SupervisorTimes :
         /\ t > supervisor.now
         /\ supervisor' = [supervisor EXCEPT !.now = t]
    /\ UNCHANGED <<engine_vars, writer, stream, quote, pair, locks>>

\* The top of the loop: time_left is read, then the thread sleeps.
SupervisorReadClock ==
    /\ supervisor.spc = "top"
    /\ supervisor' = [supervisor EXCEPT
          !.time_left = WindowSec - (supervisor.now % WindowSec),
          !.spc = "slept"]
    /\ UNCHANGED <<engine_vars, writer, stream, quote, pair, locks>>

\* Whether the iteration asks the discovery service for the next window.
PreFetches(s) ==
    s.time_left <= 20 /\ s.time_left > 0 /\ ~s.next_tokens_ready

\* The pre-fetch block: on success the tokens are kept for the switch and
\* subscribed on the price stream; g_up_token / g_down_token are restored.
PreFetch(s, window_ts, ok) ==
    IF ~PreFetches(s) THEN s
    ELSE LET slug == SlugOfWindow(window_ts + WindowSec)
         IN IF ok
            THEN [s EXCEPT !.next_slug = slug,
                           !.next_up_token = ListedTokens(slug)[1],
                           !.next_down_token = ListedTokens(slug)[2],
                           !.next_tokens_ready = TRUE,
                           !.tokens = @ \cup {ListedTokens(slug)[1],
                                              ListedTokens(slug)[2]}]
            ELSE [s EXCEPT !.next_slug = slug]

\* Whether the iteration finds a new window.
Switches(s, window_ts) == window_ts # s.current_window_ts

\* Whether the switch has to ask the discovery service itself.
FallsBack(s, window_ts) ==
    /\ Switches(s, window_ts)
    /\ ~(s.next_tokens_ready /\ s.next_slug = SlugOfWindow(window_ts))

\* The window-switch block: current_window_ts is assigned first; set_market
\* with the pre-fetched tokens, or after a fetch of its own followed by
\* clear_subscriptions and two subscribe calls; nothing when that fetch
\* fails.
WindowSwitch(s, window_ts, ok) ==
    IF ~Switches(s, window_ts) THEN s
    ELSE LET slug == SlugOfWindow(window_ts)
         IN IF ~FallsBack(s, window_ts)
            THEN [s EXCEPT !.current_window_ts = window_ts,
                           !.g_up_token = s.next_up_token,
                           !.g_down_token = s.next_down_token,
                           !.active_market_slug = slug,
                           !.next_tokens_ready = FALSE]
            ELSE IF ok
            THEN [s EXCEPT !.current_window_ts = window_ts,
                           !.g_up_token = ListedTokens(slug)[1],
                           !.g_down_token = ListedTokens(slug)[2],
                           !.active_market_slug = slug,
                           !.tokens = {ListedTokens(slug)[1],
                                       ListedTokens(slug)[2]},
                           !.next_tokens_ready = FALSE]
            ELSE [s EXCEPT !.current_window_ts = window_ts,
                           !.next_tokens_ready = FALSE]

\* The rest of the iteration after the sleep; each request to the discovery
\* service succeeds or fails.
SupervisorIterate ==
    /\ supervisor.spc = "slept"
    /\ \E pre_ok \in BOOLEAN, switch_ok \in BOOLEAN :
         LET window_ts == (supervisor.now \div WindowSec) * WindowSec
             fetched == PreFetch(supervisor, window_ts, pre_ok)
             failed == (IF PreFetches(supervisor) /\ ~pre_ok THEN 1 ELSE 0)
                       + (IF FallsBack(fetched, window_ts) /\ ~switch_ok
                          THEN 1 ELSE 0)
             switched == WindowSwitch(fetched, window_ts, switch_ok)
         IN /\ supervisor.failures + failed <= MaxFetchFailures
            /\ supervisor' = [switched EXCEPT !.spc = "top",
                                              !.failures = @ + failed]
    /\ UNCHANGED <<engine_vars, writer, stream, quote, pair, locks>>

SupervisorStep ==
    \/ SupervisorReadClock
    \/ SupervisorIterate

NextSupervisor ==
    \/ SupervisorTick
    \/ SupervisorReadClock
    \/ SupervisorIterate

SpecSupervisor == InitSupervisor /\ [][NextSupervisor]_vars

\* The loop never blocks but for its sleeps and the requests, which time
\* out: its iterations go on.  How far the clock runs, and whether the
\* discovery service answers, is not up to the program.
SpecSupervisorFair ==
    /\ InitSupervisor
    /\ [][NextSupervisor]_vars
    /\ WF_vars(SupervisorStep)

\* ================================================================== locks
\* Every call as the sequence of its mutex operations and of its calls to
\* the outside (venue, database), in program order.

Lock(m) == <<"lock", m>>
Unlock(m) == <<"unlock", m>>
Call(port) == <<"call", port>>

\* add_log
AddLogSteps == <<Lock("log"), Unlock("log")>>

\* A queue_trade that counts the queue before it leaves the lock scope.
QueueTradeSteps_CountsInside ==
    <<Lock("writer"), Lock("writer"), Unlock("writer"), Unlock("writer")>>

\* queue_trade: the push under the mutex, then pending_count under it again.
QueueTradeSteps ==
    <<Lock("writer"), Unlock("writer"), Lock("writer"), Unlock("writer")>>

\* The locked block of execute_paper_trade / execute_live_trade.
LockedBlockSteps ==
    <<Lock("engine")>> \o QueueTradeSteps \o <<Unlock("engine")>>

\* on_orderbook_update: without a trade, with a simulated trade, with a
\* live order that fails, and with a live trade.
OnOrderbookUpdateCalls ==
    { <<Lock("engine"), Unlock("engine")>>,
      <<Lock("engine"), Unlock("engine")>> \o LockedBlockSteps
          \o AddLogSteps,
      <<Lock("engine"), Unlock("engine")>> \o AddLogSteps
          \o <<Call("venue")>> \o AddLogSteps,
      <<Lock("engine"), Unlock("engine")>> \o AddLogSteps
          \o <<Call("venue")>> \o LockedBlockSteps \o AddLogSteps
          \o AddLogSteps }

\* The supervisor's switch: add_log, set_market (with the add_log of an
\* abandonment inside), set_market_info, add_log.
SupervisorCalls ==
    { AddLogSteps \o <<Lock("engine")>> \o AddLogSteps
          \o <<Unlock("engine"), Lock("price"), Unlock("price")>>
          \o AddLogSteps }

\* Interface workers: get_status_json, the status command, a setter, the
\* reset command, set_trading_mode(LIVE) with its balance request.
InterfaceCalls ==
    { <<Lock("price"), Lock("cycle"), Lock("engine"), Unlock("engine"),
        Lock("engine"), Unlock("engine"), Unlock("cycle"), Unlock("price")>>,
      AddLogSteps \o <<Lock("price"), Lock("engine"), Unlock("engine"),
                       Unlock("price")>>,
      <<Lock("engine"), Unlock("engine")>> \o AddLogSteps,
      <<Lock("engine")>> \o AddLogSteps \o <<Unlock("engine")>>
          \o AddLogSteps,
      <<Lock("engine")>> \o AddLogSteps \o <<Call("venue")>> \o AddLogSteps
          \o <<Unlock("engine")>> \o AddLogSteps }

\* The writer's worker: one turn of the loop (the wait gives the mutex back
\* while it blocks), and the drain after stop().
WriterCalls ==
    { <<Lock("writer"), Unlock("writer"), Call("database")>>,
      <<Lock("writer"), Call("database"), Unlock("writer")>> }

CallsOf(t) ==
    CASE t = "adapter" -> OnOrderbookUpdateCalls
      [] t = "supervisor" -> SupervisorCalls
      [] t = "interface" -> InterfaceCalls
      [] OTHER -> WriterCalls

InitLocks ==
    /\ EngineInit
    /\ config = InitConfig
    /\ has_key
    /\ active_market_slug = ""
    /\ writer = WriterStarted
    /\ stream = StreamConstructed
    /\ quote = NoQuote
    /\ pair = NoPair
    /\ supervisor = NoSupervisor
    /\ locks = NoLocks

Busy(t) == locks.todo[t] # <<>>
NextStep(t) == Head(locks.todo[t])
Done(t) == [locks EXCEPT !.todo[t] = Tail(@)]

\* A thread between two calls begins one.
BeginCall(t) ==
    /\ ~Busy(t)
    /\ locks.calls < MaxLockCalls
    /\ \E steps \in CallsOf(t) :
         locks' = [locks EXCEPT !.todo[t] = steps, !.calls = @ + 1]
    /\ UNCHANGED <<engine_vars, writer, stream, quote, pair, supervisor>>

\* std::mutex::lock: taken when free; a thread that asks for a mutex it
\* owns, or one another thread owns, waits.
Acquire(t) ==
    /\ Busy(t)
    /\ NextStep(t)[1] = "lock"
    /\ locks.owner[NextStep(t)[2]] = "free"
    /\ locks' = [Done(t) EXCEPT !.owner[NextStep(t)[2]] = t]
    /\ UNCHANGED <<engine_vars, writer, stream, quote, pair, supervisor>>

Release(t) ==
    /\ Busy(t)
    /\ NextStep(t)[1] = "unlock"
    /\ locks' = [Done(t) EXCEPT !.owner[NextStep(t)[2]] = "free"]
    /\ UNCHANGED <<engine_vars, writer, stream, quote, pair, supervisor>>

\* The venue or the database answers.
PortReturns(t) ==
    /\ Busy(t)
    /\ NextStep(t)[1] = "call"
    /\ locks' = Done(t)
    /\ UNCHANGED <<engine_vars, writer, stream, quote, pair, supervisor>>

ThreadStep(t) == Acquire(t) \/ Release(t) \/ PortReturns(t)

LocksBegin == \E t \in Threads : BeginCall(t)
LocksAcquire == \E t \in Threads : Acquire(t)
LocksRelease == \E t \in Threads : Release(t)
LocksPortReturns == \E t \in Threads : PortReturns(t)

NextLocks ==
    \/ LocksBegin
    \/ LocksAcquire
    \/ LocksRelease
    \/ LocksPortReturns

SpecLocks == InitLocks /\ [][NextLocks]_vars

\* Every thread keeps being scheduled, and the venue and the database
\* answer every call; which calls are begun is up to the outside.
SpecLocksFair ==
    /\ InitLocks
    /\ [][NextLocks]_vars
    /\ \A t \in Threads : WF_vars(ThreadStep(t))

\* ================================================================ claims

WindowStart(t) == (t \div WindowSec) * WindowSec
Evaluating == pc \in {"decide", "exec", "record", "commit"}

\* C1: whenever a position is open, its market_slug is the active market
\* slug. (Fails: set_market can run between the worker's entry decision and
\* its unlocked assignment of current_position_.)
C1_PositionOnActiveMarket ==
    current_position # None
        => current_position.market_slug = active_market_slug

\* C2: from the moment on_orderbook_update has stored a snapshot until the
\* evaluation it started has returned, no set_market, reset, set_mode or
\* config setter of another thread takes effect. (Fails: the mutex is
\* released before process_market runs.)
C2_EvaluationHoldsMutex ==
    [][pc # "idle" =>
          /\ config' = config
          /\ trading_mode' = trading_mode
          /\ active_market_slug' = active_market_slug
          /\ Len(trade_history') >= Len(trade_history)]_vars

\* C3: a set_market that installs a different slug leaves exactly one market
\* in the store, the new one with empty books, and a position open before
\* the call is gone and frozen in last_completed_cycle as "incomplete" with
\* its side, price and shares.
C3_SetMarketNewSlug ==
    [][active_market_slug' # active_market_slug =>
          /\ DOMAIN markets' = {active_market_slug'}
          /\ markets'[active_market_slug'].slug = active_market_slug'
          /\ markets'[active_market_slug'].up_orderbook = EmptyBook
          /\ markets'[active_market_slug'].down_orderbook = EmptyBook
          /\ current_position # None =>
                /\ current_position' = None
                /\ last_completed_cycle'.status = "incomplete"
                /\ last_completed_cycle'.leg1_side = current_position.side
                /\ last_completed_cycle'.leg1_price = current_position.avg_cost
                /\ last_completed_cycle'.leg1_shares = current_position.shares
      ]_vars

C3_Witness ==
    /\ active_market_slug = "btc-updown-15m-1800"
    /\ DOMAIN markets = {"btc-updown-15m-1800"}
    /\ current_position = None
    /\ last_completed_cycle.status = "incomplete"
    /\ last_completed_cycle.leg1_side = "UP"
    /\ last_completed_cycle.leg1_shares = 10

\* A step of set_market: an operation of another thread that changes the
\* store or the active slug.
SetMarketStep ==
    /\ ops' = ops + 1
    /\ markets' # markets \/ active_market_slug' # active_market_slug

\* C4: a set_market that installs a different slug while a position is open
\* lowers realized_pnl by exactly the position's total_cost and drops the
\* position; a set_market with no position open leaves realized_pnl as it
\* was.
C4_AbandonmentBooksLoss ==
    [][SetMarketStep =>
          IF current_position = None
          THEN realized_pnl' = realized_pnl /\ current_position' = None
          ELSE active_market_slug' # active_market_slug =>
                  /\ realized_pnl' = realized_pnl - current_position.total_cost
                  /\ current_position' = None
      ]_vars

C4_Witness ==
    /\ current_position = None
    /\ last_completed_cycle.status = "incomplete"
    /\ last_completed_cycle.total_cost = 350
    /\ realized_pnl = 0 - 350
    /\ cash = InitialCash - 350

\* C5: the locked block that records a leg-2 trade leaves cash = cash before
\* - trade.cost + shares and raises realized_pnl by
\* (1 - avg_cost - trade.price) * shares. (Fails: the leg is read before the
\* mutex is taken, and a reset or set_market in between removes the
\* position the profit and the payout are booked against.)
C5_HedgeAccounting ==
    [][(pc = "record" /\ pc' = "commit" /\ loc.trade.leg = 2) =>
          /\ cash' = cash - loc.trade.cost + loc.trade.shares * Dollar
          /\ realized_pnl' - realized_pnl = loc'.trade.pnl
          /\ current_position # None
          /\ loc'.trade.pnl = (Dollar - current_position.avg_cost
                                  - loc.trade.price) * current_position.shares
      ]_vars

\* C6: in trade_history every leg-1 trade has pnl 0 and every leg-2 trade
\* that follows its leg-1 trade l has pnl (1 - l.price - t.price) * l.shares.
\* (Fails: the copy in the history is taken before the pnl is written.)
C6_HistoryPnl ==
    \A i \in 1..Len(trade_history) :
        LET t == trade_history[i]
        IN /\ t.leg = 1 => t.pnl = 0
           /\ (t.leg = 2 /\ i > 1 /\ trade_history[i - 1].leg = 1) =>
                 LET l == trade_history[i - 1]
                 IN t.pnl = (Dollar - l.price - t.price) * l.shares

\* C7 as stated: at the instant a trade is created, its market is in the
\* trading phase, 0 <= time_left <= dump_window_sec. (Fails: the clock is
\* read again after the gate, and is not checked again.)
C7_TradeCreatedInPhase ==
    [][(pc = "exec" /\ pc' = "record") =>
          /\ TimeLeft(loc.slug) >= 0
          /\ TimeLeft(loc.slug) <= config.dump_window_sec]_vars

\* C7 amended: every trade is placed by an evaluation whose gate found
\* 0 <= time_left <= dump_window_sec, with the clock value and the
\* dump_window_sec that the gate read.
C7_TradeGatedInPhase ==
    Evaluating =>
        /\ loc.time_left = WindowSec - (loc.now_sec - MarketStartTime(loc.slug))
        /\ loc.time_left >= 0
        /\ loc.time_left <= loc.window
        /\ loc.now_sec <= now

C7_Witness ==
    /\ pc = "record"
    /\ loc.trade.leg = 1
    /\ loc.time_left = 5
    /\ loc.window = 120

\* C8: a trade is only placed by an evaluation whose clock reading lies in
\* the window that the slug of the market encodes. (Fails in the second in
\* which the next window starts: time_left = 0 passes the gate.)
C8_NoTradeOnStaleWindow ==
    pc \in {"exec", "record", "commit"}
        => MarketStartTime(loc.slug) = WindowStart(loc.now_sec)

\* C9: an entry is only placed by an evaluation that read the clock 5 or
\* more seconds after last_cycle_complete_time, and with the engine idle,
\* the market in the trading phase and 5 or more seconds elapsed the gate
\* lets the evaluation through to the entry test.
C9_Cooldown ==
    /\ [](Evaluating /\ loc.branch = "enter"
            => loc.now_sec - last_cycle_complete_time >= CooldownSec)
    /\ [][(/\ pc = "gate" /\ pc' # "gate"
           /\ loc.slug \in DOMAIN markets
           /\ current_position = None
           /\ TimeLeft(loc.slug) >= 0
           /\ TimeLeft(loc.slug) <= config.dump_window_sec)
          => (pc' = "decide" /\ loc'.branch = "enter")
                 <=> now - last_cycle_complete_time >= CooldownSec]_vars
    /\ [][(pc = "commit" /\ pc' # "commit" /\ loc.branch = "enter")
          => /\ current_position' # None
             /\ current_position'.side = loc.side
             /\ current_position'.avg_cost = loc.trade.price]_vars

C9_Witness ==
    /\ current_position # None
    /\ last_completed_cycle.status = "complete"
    /\ last_cycle_complete_time = 1795
    /\ now - last_cycle_complete_time >= CooldownSec
    /\ Len(writer_queue) = 3

C11_HedgeRule ==
    [][(/\ pc = "decide" /\ pc' # "decide"
        /\ loc.branch = "hedge"
        /\ loc.slug \in DOMAIN markets
        /\ current_position # None)
       => LET market == markets[loc.slug]
              pos == current_position
              opposite_side == IF pos.side = "UP" THEN "DOWN" ELSE "UP"
              opposite_ask == get_best_ask(IF pos.side = "UP"
                                           THEN market.down_orderbook
                                           ELSE market.up_orderbook)
          IN IF pos.avg_cost + opposite_ask <= config.sum_target
             THEN /\ pc' = "exec"
                  /\ loc'.side = opposite_side
                  /\ loc'.shares = pos.shares
                  /\ loc'.price = opposite_ask
                  /\ loc'.token = TokenOf(market, opposite_side)
             ELSE pc' = "idle"
      ]_vars

C11_Witness ==
    /\ pc = "exec"
    /\ loc.branch = "hedge"
    /\ current_position # None
    /\ current_position.side = "UP"
    /\ current_position.avg_cost = 35
    /\ loc.side = "DOWN"
    /\ loc.price = 64
    /\ config.sum_target = 99

\* C12: a successful entry debits cash by exactly trade.cost, leaves
\* realized_pnl alone, appends the trade to the history and to the writer
\* queue, and ends with the position {market_slug, side, shares, avg_cost =
\* trade.price, total_cost = trade.cost, trades = [trade]} open and the
\* trade in the history. (Fails: the position is created after the mutex
\* was released, and a reset in between empties the history and restores
\* the cash.)
C12_EntryEffects ==
    /\ [][(pc = "record" /\ pc' = "commit" /\ loc.branch = "enter")
          => /\ cash' = cash - loc.trade.cost
             /\ realized_pnl' = realized_pnl
             /\ trade_history' = Append(trade_history, loc.trade)
             /\ Len(writer_queue') = Len(writer_queue) + 1]_vars
    /\ [][(pc = "commit" /\ pc' = "idle" /\ loc.branch = "enter")
          => /\ current_position' =
                    [market_slug |-> loc.slug, side |-> loc.side,
                     shares |-> loc.trade.shares,
                     avg_cost |-> loc.trade.price,
                     total_cost |-> loc.trade.cost,
                     trades |-> <<loc.trade>>]
             /\ trade_history' # <<>>
             /\ trade_history'[Len(trade_history')] = loc.trade]_vars

\* C13: when the venue refuses the order (entry or hedge) the evaluation
\* ends there: position, cash, realized_pnl, trade history,
\* last_completed_cycle and the writer queue are as before.
C13_FailedOrderChangesNothing ==
    [][(pc = "exec" /\ pc' = "idle")
       => /\ trading_mode = "LIVE"
          /\ UNCHANGED <<current_position, cash, realized_pnl, trade_history,
                         last_completed_cycle, last_cycle_complete_time,
                         writer_queue>>
      ]_vars

C13_Witness ==
    /\ pc = "exec"
    /\ trading_mode = "LIVE"
    /\ loc.branch = "hedge"
    /\ current_position # None
    /\ Len(trade_history) = 1

\* C14: once set_market has installed a new slug, no order for the outgoing
\* market is sent to the venue and no trade of the outgoing market is
\* appended to the history: every order and every recorded trade is for
\* the active market. (Fails: an evaluation that passed the gate before
\* the switch goes on with the slug it was started for.)
C14_NoTradeOnOutgoingMarket ==
    [][((pc = "exec" /\ pc' # "exec") \/ (pc = "record" /\ pc' = "commit"))
       => loc.slug = active_market_slug]_vars

IsPrefix(a, b) == Len(a) <= Len(b) /\ SubSeq(b, 1, Len(a)) = a

\* C15 as stated: over every step the trade history keeps the trades it
\* has, unmodified, and never gets shorter. (Fails: reset_paper_trading
\* clears it.)
C15_HistoryNeverShrinks ==
    [][IsPrefix(trade_history, trade_history')]_vars

\* C15 amended: every step either keeps the trades of the history,
\* unmodified and in place, or is a reset, which empties the history
\* together with the rest of the portfolio.
C15_HistoryShrinksOnlyOnReset ==
    [][\/ IsPrefix(trade_history, trade_history')
       \/ /\ trade_history' = <<>>
          /\ cash' = InitialCash
          /\ realized_pnl' = 0
          /\ current_position' = None
          /\ trading_mode' = "PAPER"]_vars

C15_Witness ==
    /\ trade_history = <<>>
    /\ Len(writer_queue) = 2
    /\ cash = InitialCash
    /\ ~running

\* C16: a set_market for the slug that is already active leaves both order
\* books of the market, the position, cash, realized_pnl and
\* last_completed_cycle as they were. (Fails: the entry of the store is
\* built anew, with empty books.)
C16_SameSlugKeepsBooks ==
    [][(/\ SetMarketStep
        /\ active_market_slug' = active_market_slug
        /\ active_market_slug \in DOMAIN markets)
       => /\ markets'[active_market_slug].up_orderbook
                = markets[active_market_slug].up_orderbook
          /\ markets'[active_market_slug].down_orderbook
                = markets[active_market_slug].down_orderbook
          /\ UNCHANGED <<current_position, cash, realized_pnl,
                         last_completed_cycle>>
      ]_vars

\* C17: a snapshot is stored, and an evaluation is started, only for a
\* token that is the UP or the DOWN token of a market in the store; a
\* snapshot for any other token changes no book, no position, no cash, no
\* realized_pnl and no history, and sends no order.
C17_UnknownTokenDropped ==
    /\ [][(pc = "idle" /\ pc' = "gate")
          => /\ loc'.slug \in DOMAIN markets
             /\ loc'.token_id \in {markets[loc'.slug].up_token_id,
                                   markets[loc'.slug].down_token_id}
             /\ \A s \in DOMAIN markets \ {loc'.slug} :
                    s \in DOMAIN markets' /\ markets'[s] = markets[s]
             /\ UNCHANGED <<current_position, cash, realized_pnl,
                            trade_history, writer_queue>>]_vars
    /\ [][(pc = "idle" /\ pc' = "idle" /\ ops' = ops)
          => UNCHANGED <<markets, current_position, cash, realized_pnl,
                         trade_history, writer_queue>>]_vars

C17_Witness ==
    /\ pc = "idle"
    /\ running
    /\ DOMAIN markets = {"btc-updown-15m-1800"}
    /\ markets["btc-updown-15m-1800"].up_orderbook # EmptyBook
    /\ markets["btc-updown-15m-1800"].down_orderbook # EmptyBook

\* A step of the reset command that has a history to clear.
ResetStep == ops' = ops + 1 /\ trade_history' # trade_history

\* C18: a reset in paper mode leaves cash = 1000, realized_pnl = 0, no
\* position, an empty trade history, a default last_completed_cycle and
\* paper mode, whatever the state it is issued in.
C18_ResetInPaper ==
    [][(ResetStep /\ trading_mode = "PAPER")
       => /\ cash' = InitialCash
          /\ realized_pnl' = 0
          /\ current_position' = None
          /\ trade_history' = <<>>
          /\ last_completed_cycle' = EmptyCycle
          /\ trading_mode' = "PAPER"
      ]_vars

C18_Witness ==
    /\ ~running
    /\ trading_mode = "PAPER"
    /\ cash = InitialCash
    /\ realized_pnl = 0
    /\ current_position = None
    /\ trade_history = <<>>
    /\ last_completed_cycle = EmptyCycle
    /\ Len(writer_queue) = 2
    /\ last_cycle_complete_time > 0

\* C19: in live mode a command that turns the engine off (stop, or the
\* reset command, which stops first) changes nothing else: the mode stays
\* LIVE and cash, realized_pnl, the position and the trade history are as
\* before. (Fails: the reset command is not refused in live mode.)
C19_ResetInLiveRejected ==
    [][(ops' = ops + 1 /\ trading_mode = "LIVE" /\ running /\ ~running')
       => /\ trading_mode' = "LIVE"
          /\ UNCHANGED <<cash, realized_pnl, current_position,
                         trade_history>>
      ]_vars

C21_LiveOnlyAfterBalanceProbe ==
    [][(trading_mode = "PAPER" /\ trading_mode' = "LIVE")
       => cash' \in Balances]_vars

\* C22: one evaluation works on one set of config values: the entry or
\* hedge test and the share count are taken from the config the window
\* gate of the same evaluation read. (Fails: config_ is read again at each
\* use, without the mutex the setters write it under.)
C22_EvaluationUsesOneConfig ==
    [][(pc = "decide" /\ pc' # "decide") => config = loc.config]_vars

\* ---- trade writer

\* The trades handed to insert_trade so far, in call order.
LogIds == [i \in 1..Len(writer.log) |-> writer.log[i].id]
\* The trades pushed on queue_ so far.
Pushed ==
    IF writer.ppc \in {"notify", "count"} THEN writer.next
    ELSE writer.next - 1
\* Inserted, in the worker's hands, or still queued.
Handled ==
    LogIds \o (IF writer.cur = 0 THEN <<>> ELSE <<writer.cur>>)
           \o writer.queue
StopReturns == writer.spc = "join" /\ writer'.spc = "idle"

\* C23: every trade enqueued before stop() returns is passed to insert
\* exactly once and in enqueue order, stop() returns only after the queue is
\* empty, and a thread inside queue_trade never waits for mutex_ while the
\* worker is inside insert_trade.
C23_WriterDrainsWithoutBlocking ==
    /\ [][StopReturns =>
            /\ writer.queue = <<>>
            /\ LogIds = [i \in 1..Pushed |-> i]]_vars
    /\ [](Handled = [i \in 1..Pushed |-> i])
    /\ [](~(writer.ppc \in {"push", "count"} /\ writer.wpc = "drain_insert"))

InsertFails ==
    /\ Len(writer'.log) = Len(writer.log) + 1
    /\ ~writer'.log[Len(writer'.log)].ok

\* C24: a failed insert_trade leaves the worker in its loop (or its drain
\* loop) with the queue as it was, so the failed trade is neither re-queued
\* nor handed to insert_trade again, and the engine's history, cash and
\* position are untouched.
C24_FailedInsertIsDropped ==
    /\ [][InsertFails =>
            /\ writer'.wpc \in {"loop", "drain"}
            /\ writer'.queue = writer.queue
            /\ writer'.cur = 0
            /\ UNCHANGED <<trade_history, cash, current_position>>]_vars
    /\ [](\A i, j \in 1..Len(writer.log) :
             i < j => writer.log[i].id < writer.log[j].id)
    /\ [](\A i \in 1..Len(writer.log), j \in 1..Len(writer.queue) :
             writer.log[i].id # writer.queue[j])
\* The first trade was refused by the store and the second one stored.
C24_Witness ==
    /\ Len(writer.log) = 2
    /\ ~writer.log[1].ok /\ writer.log[1].id = 1
    /\ writer.log[2].ok /\ writer.log[2].id = 2

\* ---- price stream

\* The events read so far, those given to the engine first.
ReadOrder == stream.delivered \o stream.pending

\* C25: the order-book callback is called only by the worker, for the
\* oldest event not yet delivered; no message is read while an event of the
\* previous one is undelivered; events of an earlier message come before
\* those of a later one, and within one array the items keep array order.
C25_DeliveredInReadOrder ==
    /\ [][stream'.delivered # stream.delivered =>
            /\ stream.wpc = "deliver"
            /\ stream.pending # <<>>
            /\ stream'.delivered = Append(stream.delivered,
                                          Head(stream.pending))
            /\ stream'.pending = Tail(stream.pending)]_vars
    /\ [][stream'.reads # stream.reads => stream.pending = <<>>]_vars
    /\ [](\A i, j \in 1..Len(ReadOrder) :
            i < j =>
              /\ ReadOrder[i].n <= ReadOrder[j].n
              /\ ReadOrder[i].n = ReadOrder[j].n =>
                   ReadOrder[i].token_id = "u1" /\ ReadOrder[j].token_id = "d1")
\* Both items of an array message, then the event of the next message.
C25_Witness ==
    /\ Len(stream.delivered) = 3
    /\ stream.delivered[1].n = 1 /\ stream.delivered[1].token_id = "u1"
    /\ stream.delivered[2].n = 1 /\ stream.delivered[2].token_id = "d1"
    /\ stream.delivered[3].n = 2

C27_ClearOnlyEmptiesTheSet ==
    [][(stream.tokens # <<>> /\ stream'.tokens = <<>>) =>
         stream' = [stream EXCEPT !.tokens = <<>>, !.calls = @ + 1]]_vars
\* Cleared on a live connection on which a subscribe had been written.
C27_Witness ==
    /\ stream.tokens = <<>>
    /\ stream.sent # <<>>
    /\ stream.connected
    /\ stream.wpc = "reading"

\* C28: a stop() that has begun returns, and while running_ every exit from
\* connect / read_loop is followed by a new connect.
C28_StopReturnsAndReconnects ==
    /\ (stream.spc # "idle") ~> (stream.spc = "idle")
    /\ (stream.wpc = "after" /\ stream.running)
          ~> (stream.wpc = "connecting" \/ ~stream.running)

\* The same message with every price and size as a JSON string.
AsStrings(m) ==
    [shape |-> m.shape,
     items |-> [i \in 1..Len(m.items) |->
                  [asset_id |-> m.items[i].asset_id,
                   asks |-> [k \in 1..Len(m.items[i].asks) |->
                               LevelOf("string",
                                       m.items[i].asks[k].price.val,
                                       m.items[i].asks[k].size.val)],
                   bids |-> [k \in 1..Len(m.items[i].bids) |->
                               LevelOf("string",
                                       m.items[i].bids[k].price.val,
                                       m.items[i].bids[k].size.val)]]],
     changes |-> [i \in 1..Len(m.changes) |->
                    ChangeOf("string", m.changes[i].asset_id,
                             m.changes[i].best_bid.val,
                             m.changes[i].best_ask.val)]]

\* C29: a message that is read yields the events its all-strings form
\* yields, whatever the encoding of its scalars.
C29_EncodingDoesNotMatter ==
    [][stream'.reads # stream.reads =>
         stream'.pending = Stamp(ParseMessage(AsStrings(stream'.msg)),
                                 stream'.reads)]_vars

\* ---- best of book

PricesOf(levels) == { levels[i][1] : i \in 1..Len(levels) }
LowestAsk(levels) ==
    IF levels = <<>> THEN Dollar
    ELSE CHOOSE p \in PricesOf(levels) : \A q \in PricesOf(levels) : p <= q
HighestBid(levels) ==
    IF levels = <<>> THEN 0
    ELSE CHOOSE p \in PricesOf(levels) : \A q \in PricesOf(levels) : p >= q

\* C30: get_best_ask returns the lowest ask price and get_best_bid the
\* highest bid price whatever the order of the levels, 1.0 and 0.0 on an
\* empty side; in both copies of the engine.
C30_BestOfBook ==
    /\ quote.done =>
         /\ quote.best_ask = LowestAsk(quote.asks)
         /\ quote.best_bid = HighestBid(quote.bids)
    /\ quote.legacy_done =>
         /\ quote.legacy_ask = LowestAsk(quote.asks)
         /\ quote.legacy_bid = HighestBid(quote.bids)

\* ---- engine, continued

SansLive(trades) ==
    [i \in 1..Len(trades) |->
        [f \in DOMAIN trades[i] \ {"is_live"} |-> trades[i][f]]]
Accounts(e, funds) ==
    [position |-> IF e.current_position = None THEN None
                  ELSE [e.current_position EXCEPT !.trades = SansLive(@)],
     realized_pnl |-> e.realized_pnl,
     last_completed_cycle |-> e.last_completed_cycle,
     cash_delta |-> e.cash - funds,
     trades |-> SansLive(e.trade_history)]

\* C32: a simulating and a live engine fed the same book updates and
\* rotations, every live order filled at the price asked, have the same
\* position, realized P&L, last cycle, cash change and trades (is_live
\* aside); every simulated trade has is_live false and every live one true.
C32_ModesAgree ==
    (pair.kind = "modes" /\ pair.clean) =>
        /\ \E funds \in Balances \cup {InitialCash} :
              Accounts(pair.left, InitialCash) = Accounts(pair.right, funds)
        /\ \A i \in 1..Len(pair.left.trade_history) :
              /\ ~pair.left.trade_history[i].is_live
              /\ pair.right.trade_history[i].is_live
\* Both engines completed a cycle; the live one started from the synced
\* balance.
C32_Witness ==
    /\ pair.kind = "modes" /\ pair.clean
    /\ Len(pair.right.trade_history) = 2
    /\ pair.right.current_position = None
    /\ pair.right.last_completed_cycle.status = "complete"
    /\ pair.right.realized_pnl > 0
    /\ pair.right.cash # pair.left.cash

\* ---- engine, continued

\* C33: stop() and start() leave cash, position and trade history as they
\* are, and between a stop() and the next start() the order-book side of
\* the engine (every step that is not a command of the supervisor or of an
\* interface worker) places no trade and changes no ledger field. (Fails:
\* an evaluation that read running_ before stop() goes on after it.)
C33_StoppedEngineKeepsLedger ==
    /\ [][(Stop \/ Start) =>
            UNCHANGED <<cash, realized_pnl, current_position, trade_history,
                        last_completed_cycle>>]_vars
    /\ [][(~running /\ ops' = ops) =>
            UNCHANGED <<cash, realized_pnl, current_position, trade_history,
                        last_completed_cycle, writer_queue>>]_vars

\* C34: a trade is routed by the mode: in live mode it is built from the
\* answer of the venue with is_live true, in simulated mode with is_live
\* false, fee 0 and the requested price; and the mode is still the same when
\* the trade is recorded in the ledger. (Fails: the mode is read before the
\* mutex is taken and may be switched before the trade is recorded.)
C34_TradesFollowMode ==
    /\ [][(pc = "exec" /\ pc' = "record") =>
            /\ loc'.trade.is_live = (trading_mode = "LIVE")
            /\ loc'.trade.fee = 0
            /\ trading_mode = "PAPER" => loc'.trade.price = loc.price]_vars
    /\ [][(pc = "record" /\ pc' = "commit") =>
            loc.trade.is_live = (trading_mode = "LIVE")]_vars

\* C35: one on_orderbook_update call records at most one trade: the worker
\* walks idle, gate, decide, exec, record, commit and back to idle, a trade
\* is appended to the history only by the record step, one at a time, and
\* the hedge branch is taken only for a position that was open when the
\* call passed the gate, so never for the entry of the same call.
C35_OneTradePerEvent ==
    /\ [][pc' # pc =>
            \/ pc' = "idle"
            \/ pc = "idle" /\ pc' = "gate"
            \/ pc = "gate" /\ pc' = "decide"
            \/ pc = "decide" /\ pc' = "exec"
            \/ pc = "exec" /\ pc' = "record"
            \/ pc = "record" /\ pc' = "commit"]_vars
    /\ [][Len(trade_history') > Len(trade_history) =>
            /\ pc = "record" /\ pc' = "commit"
            /\ Len(trade_history') = Len(trade_history) + 1]_vars
    /\ [][(pc = "gate" /\ pc' = "decide" /\ loc'.branch = "hedge") =>
            current_position # None]_vars
\* The call that placed the entry has returned with the hedge on offer in
\* the stored books, and has not placed it.
C35_Witness ==
    /\ pc = "idle"
    /\ Len(trade_history) = 1
    /\ current_position # None
    /\ current_position.market_slug \in DOMAIN markets
    /\ should_hedge(current_position,
                    markets[current_position.market_slug]) # <<>>

\* ---- supervisor

CurrentWindowSlug ==
    SlugOfWindow((supervisor.now \div WindowSec) * WindowSec)

\* C36: whenever the engine's active market is not the market of the
\* current window, the supervisor eventually calls set_market for it; and
\* between two iterations both tokens of the active market are in the
\* subscription set of the price stream. (Fails: when the discovery request
\* of the switch fails, the window is not tried again.)
C36_RotationFollowsWindow ==
    /\ (supervisor.active_market_slug # CurrentWindowSlug)
          ~> (supervisor.active_market_slug = CurrentWindowSlug)
    /\ [](supervisor.spc = "top" /\ supervisor.active_market_slug # "" =>
            {ListedTokens(supervisor.active_market_slug)[1],
             ListedTokens(supervisor.active_market_slug)[2]}
               \subseteq supervisor.tokens)

\* ---- engine, continued

OpenCost == IF current_position = None THEN 0 ELSE current_position.total_cost

\* C37: an engine that can only simulate (no key, so no balance was ever
\* synced) and is between two evaluations has
\* cash - 1000 = realized_pnl - (total_cost of the open position, or 0),
\* whatever book updates, rotations and resets came before. (Fails: a
\* rotation or a reset that lands inside an evaluation.)
C37_LedgerBalances ==
    (pc = "idle" /\ ~has_key) =>
        cash - InitialCash = realized_pnl - OpenCost

\* C38: in the trade history every leg-2 trade comes right after a leg-1
\* trade of the same market, the opposite side and the same number of
\* shares (so no two leg-2 trades are neighbours), and a trade is recorded
\* with leg 2 exactly when a position is open. (Fails: the leg is chosen
\* before the mutex is taken, and a reset or a rotation may come between.)
C38_LegsArePaired ==
    /\ [](\A i \in 1..Len(trade_history) :
            trade_history[i].leg = 2 =>
                /\ i > 1
                /\ trade_history[i - 1].leg = 1
                /\ trade_history[i - 1].market_slug
                       = trade_history[i].market_slug
                /\ trade_history[i - 1].side # trade_history[i].side
                /\ trade_history[i - 1].shares = trade_history[i].shares)
    /\ [][(pc = "record" /\ pc' = "commit") =>
            (loc.trade.leg = 2 <=> current_position # None)]_vars

\* ---- locks

Waits(t) ==
    /\ Busy(t)
    /\ NextStep(t)[1] = "lock"
    /\ locks.owner[NextStep(t)[2]] # "free"
Holds(t, m) == locks.owner[m] = t

\* C39: no thread asks for a mutex it holds; the engine mutex is never
\* asked for by a thread that holds the writer's; no set of threads waits
\* for mutexes held inside the set; and, the venue and the database
\* answering, every on_orderbook_update call returns.
C39_NoDeadlock ==
    /\ [](\A t \in Threads :
            (Busy(t) /\ NextStep(t)[1] = "lock") =>
                /\ ~Holds(t, NextStep(t)[2])
                /\ NextStep(t)[2] = "engine" => ~Holds(t, "writer"))
    /\ [](\A S \in SUBSET Threads \ {{}} :
            ~(\A t \in S : Waits(t) /\ locks.owner[NextStep(t)[2]] \in S))
    /\ Busy("adapter") ~> ~Busy("adapter")
\* The adapter's worker holds the engine mutex and waits for the writer's,
\* which the drain holds across an insert, while an interface worker
\* holding two mutexes waits for the engine's.
C39_Witness ==
    /\ Holds("adapter", "engine") /\ Waits("adapter")
    /\ Holds("writer", "writer")
    /\ Busy("writer") /\ NextStep("writer")[1] = "call"
    /\ Holds("interface", "cycle") /\ Waits("interface")

\* ---- two engines, continued

\* C40: two engines that differ only in dca_enabled, dca_levels,
\* dca_multiplier or breakeven_enabled (from construction or through
\* set_dca_enabled) and are fed the same events have placed the same
\* trades and hold the same cash, realized P&L, position and last cycle.
C40_ReservedFieldsAreInert ==
    pair.kind = "reserved" =>
        /\ pair.left.trade_history = pair.right.trade_history
        /\ pair.left.cash = pair.right.cash
        /\ pair.left.realized_pnl = pair.right.realized_pnl
        /\ pair.left.current_position = pair.right.current_position
        /\ pair.left.last_completed_cycle = pair.right.last_completed_cycle
\* The right engine was built without breakeven, had DCA switched off by
\* set_dca_enabled, and both engines have completed a cycle.
C40_Witness ==
    /\ pair.kind = "reserved"
    /\ pair.left.config.dca_enabled /\ pair.left.config.breakeven_enabled
    /\ ~pair.right.config.dca_enabled
    /\ ~pair.right.config.breakeven_enabled
    /\ Len(pair.right.trade_history) = 2
    /\ pair.right.last_completed_cycle.status = "complete"

====
